---- MODULE Spec2Model ----
(***************************************************************************)
(* dbt-invoke, properties.update: the reconciliation of a resource's       *)
(* property file with the introspected column list                         *)
(* (_create_property_file, _structure_property_file_dict) and the          *)
(* thread-pool coordinator that runs it for every selected resource        *)
(* (_create_all_property_files).                                           *)
(*                                                                         *)
(* Spec       one selected resource, updated again and again, with hand    *)
(*            edits of its property file in between.                       *)
(* SpecBuild  one run of _create_all_property_files over a selection.      *)
(* FairSpecBuild  the same, with the threads never stopping for good.      *)
(* SpecShared the same run over two resources that share a property path.  *)
(* SpecRun    the run from the check of the helper macro (macro_exists,    *)
(*            add_macro) to the summary.                                   *)
(* SpecDelete properties.delete (_delete_all_property_files).              *)
(* SpecMigrate  properties.migrate.                                        *)
(* SpecColumns  _get_columns, from the output of dbt run-operation to the  *)
(*            column list.                                                 *)
(* SpecCommand  update, delete and migrate from their call to the end of   *)
(*            _initiate_alterations.                                       *)
(* SpecSameName  properties.migrate over a property file that may hold a   *)
(*            model and an analysis of one name.                           *)
(* SpecRemove  migrate, the removal of the marked records from the parsed  *)
(*            property file, for any marks.                                *)
(* SpecFill   fill: the descriptions of a source selection applied to the  *)
(*            undocumented columns of a target selection.                  *)
(***************************************************************************)
EXTENDS Integers, Sequences, FiniteSets, TLC

VARIABLES
    files,        \* the project directory: property path -> file content
    warehouse,    \* resource name -> what _get_columns returns (or raises)
    selection,    \* transformed_ls_results, in order: sequence of resources
    last,         \* the most recent _create_property_file call, or the most
                  \* recent call of write_yaml by migrate (history)
    threads,      \* max_workers of the ThreadPoolExecutor
    pc,           \* position of _create_all_property_files
    submitted,    \* how many futures the comprehension has submitted
    task,         \* future index -> state of the work item
    reported,     \* the indices as_completed has yielded, in order
    successes,    \* properties.py:596
    failures,     \* properties.py:597
    exception_message, \* indices whose futures[future] has the key
    tracebacks,   \* the 'Tracebacks for all failures' log: indices, in order
    summary,      \* the [DONE] log record, once written
    initial_files,    \* the project directory when the command began (history)
    project_macro,    \* what dbt run-operation makes of the helper macro
    macro_location,   \* the file add_macro has appended the macro to
    macro_files,      \* the macro files: location -> the texts written
    initial_macro_files, \* the macro files when the command began (history)
    macro_checks,     \* the calls of macro_exists so far
    add_confirmation, \* _utils.py:352, the last answer to the install prompt
    deletion_confirmation, \* properties.py:678, the last answer
    property_paths,   \* properties.py:659, the files delete has listed
    manifest,         \* the nodes of target/manifest.json, in order
    migration_map,    \* properties.py:327, in insertion order
    group,            \* position of the loop of line 363 in migration_map
    item,             \* position of the loop of line 389 in resource_list
    existing_property_file_dict, \* properties.py:372
    indices_to_remove,           \* properties.py:365
    migration_log,    \* the log records of migrate, in order
    result_lines,     \* properties.py:761, what dbt_run_operation returned
    returned_columns, \* properties.py:827, the columns _get_columns returned
    command,          \* the task invoked: update, delete or migrate
    kwargs,           \* properties.py:459, the arguments of the task
    calls,            \* what the task has read, written and run, in order
    source_selection, \* fill: the resources descriptions are taken from
    descriptions,     \* fill: column name -> the descriptions collected
    target_dict,      \* fill: the document of the target being filled
    cursor,           \* fill: the resource and the column being processed
    choice,           \* fill: the last answer to the prompt of a conflict
    tally,            \* fill: the columns described and not described
    fill_log          \* fill: what was applied, asked and answered, in order

macroVars == <<project_macro, macro_location, macro_checks, add_confirmation,
               macro_files, initial_macro_files>>

deleteVars == <<deletion_confirmation, property_paths>>

migrateVars == <<manifest, migration_map, group, item,
                 existing_property_file_dict, indices_to_remove,
                 migration_log>>

parseVars == <<result_lines, returned_columns>>

commandVars == <<command, kwargs, calls>>

fillVars == <<source_selection, descriptions, target_dict, cursor,
              choice, tally, fill_log>>

vars == <<files, warehouse, selection, last, threads, pc, submitted, task,
          reported, successes, failures, exception_message, tracebacks,
          summary, initial_files, fillVars, commandVars, parseVars, macroVars,
          deleteVars, migrateVars>>

buildVars == <<threads, pc, submitted, task, reported, successes, failures,
               exception_message, tracebacks, summary>>

----------------------------------------------------------------------------
(* Bounds *)

\* longest column list the warehouse reports
MaxCols == 2
\* largest worker budget tried
MaxThreads == 2

\* the column names a warehouse may report
ColNames == {"a", "b", "c"}

\* the column names of hand-written property files
DocColNames == {"a", "b"}

----------------------------------------------------------------------------
(* Resources, paths, file contents *)

_SUPPORTED_RESOURCE_TYPES ==
    [model |-> "models", seed |-> "seeds",
     snapshot |-> "snapshots", analysis |-> "analyses"]

Resource(name, type, dir, suffix) ==
    [name |-> name, resource_type |-> type,
     location |-> [dir |-> dir, stem |-> name, suffix |-> suffix]]

Orders == Resource("orders", "model", "models", "sql")
Customers == Resource("customers", "model", "models", "sql")
Items == Resource("items", "seed", "data", "csv")

\* what dbt ls lists, in its order
Catalog == <<Orders, Customers, Items>>

Resources == {Catalog[i] : i \in DOMAIN Catalog}

\* Path(project_path, resource_location).with_suffix('.yml')
property_path(resource_location) ==
    [resource_location EXCEPT !.suffix = "yml"]

Paths == {property_path(r.location) : r \in Resources}

Absent == [exists |-> FALSE]

\* yaml.safe_load of an empty file
NullDoc == [null |-> TRUE]

\* a file on disk; style tells the text written by yaml.safe_dump from text
\* typed by hand (comments, quoting, layout), which safe_load does not keep
File(style, data) == [exists |-> TRUE, style |-> style, data |-> data]

parse_yaml(content) == content.data

write_yaml(data) == File("dumped", data)

_get_property_column(column_name) ==
    [name |-> column_name, description |-> "", tests |-> <<>>]

ResourceProperties(name) ==
    [name |-> name, description |-> "", tags |-> <<>>, columns |-> <<>>]

\* the header keyed by the resource type itself, not by its plural
header_singular_key(resource, resource_type) ==
    [version |-> 2,
     sections |-> (resource_type :> <<ResourceProperties(resource)>>)]

_get_property_header(resource, resource_type) ==
    [version |-> 2,
     sections |->
        (_SUPPORTED_RESOURCE_TYPES[resource_type]
            :> <<ResourceProperties(resource)>>)]

----------------------------------------------------------------------------
(* _structure_property_file_dict *)

\* the existing file is never read: a header every time
loaded_always_header(content, resource_name, resource_type) ==
    _get_property_header(resource_name, resource_type)

\* lines 844-854: the parsed file when it exists and has content, else a header
loaded_property_file_dict(content, resource_name, resource_type) ==
    IF content.exists
    THEN IF parse_yaml(content) = NullDoc
         THEN _get_property_header(resource_name, resource_type)
         ELSE parse_yaml(content)
    ELSE _get_property_header(resource_name, resource_type)

\* lines 857-860: a dict comprehension, so the last item of a name wins
existing_columns_dict(columns) ==
    [n \in {columns[i].name : i \in DOMAIN columns} |->
        columns[CHOOSE i \in DOMAIN columns :
                    /\ columns[i].name = n
                    /\ \A j \in DOMAIN columns :
                          columns[j].name = n => j <= i]]

\* every column synthesized, the existing items never reused
rebuilt_never_reused(columns, columns_list) ==
    [i \in 1..Len(columns_list) |-> _get_property_column(columns_list[i])]

\* the list not emptied first: the items are appended to the existing ones
rebuilt_appended(columns, columns_list) ==
    LET existing == existing_columns_dict(columns)
    IN  columns \o
        [i \in 1..Len(columns_list) |->
            IF columns_list[i] \in DOMAIN existing
            THEN existing[columns_list[i]]
            ELSE _get_property_column(columns_list[i])]

\* lines 864-871: the list is emptied, then one item per introspected column
rebuilt_columns(columns, columns_list) ==
    LET existing == existing_columns_dict(columns)
    IN  [i \in 1..Len(columns_list) |->
            IF columns_list[i] \in DOMAIN existing
            THEN existing[columns_list[i]]
            ELSE _get_property_column(columns_list[i])]

Raised == [raised |-> TRUE]

\* [plural][0] raises KeyError without the section, IndexError on an empty one
_structure_property_file_dict(content, resource_dict, columns_list) ==
    LET resource_type == resource_dict.resource_type
        resource_name == resource_dict.name
        property_file_dict ==
            loaded_property_file_dict(content, resource_name, resource_type)
        resource_type_plural == _SUPPORTED_RESOURCE_TYPES[resource_type]
    IN  IF resource_type_plural \notin DOMAIN property_file_dict.sections
        THEN Raised
        ELSE IF Len(property_file_dict.sections[resource_type_plural]) = 0
        THEN Raised
        ELSE [raised |-> FALSE,
              doc |->
                [property_file_dict EXCEPT
                    !.sections[resource_type_plural][1].columns =
                        rebuilt_columns(@, columns_list)]]

----------------------------------------------------------------------------
(* What the warehouse may report, and what a hand may have written *)

\* a relation has no two columns of one name
ColumnNameLists ==
    {L \in UNION {[1..n -> ColNames] : n \in 0..MaxCols} :
        \A i, j \in DOMAIN L : L[i] = L[j] => i = j}

Introspections ==
    {Raised} \cup {[raised |-> FALSE, columns |-> L] : L \in ColumnNameLists}

\* a column as update wrote it, or described and given a test by hand
ColumnRecords ==
    {[name |-> n, description |-> e.d, tests |-> e.t] :
        n \in DocColNames,
        e \in {[d |-> "", t |-> <<>>], [d |-> "x", t |-> <<"not_null">>]}}

\* a column's identity key is its name: a column list has no duplicates
ColumnLists ==
    {cs \in UNION {[1..n -> ColumnRecords] : n \in 0..MaxCols} :
        \A i, j \in DOMAIN cs : cs[i].name = cs[j].name => i = j}

OtherName(r) == IF r.name = "orders" THEN "customers" ELSE "orders"

\* the first record of a section: either name, untouched or edited by hand
HeadRecords(r) ==
    {[name |-> n, description |-> e.d, tags |-> e.t, columns |-> cs] :
        n \in {r.name, OtherName(r)},
        e \in {[d |-> "", t |-> <<>>], [d |-> "d", t |-> <<"pii">>]},
        cs \in ColumnLists}

\* a second record, of another resource
TailRecord(name) ==
    [name |-> name, description |-> "t", tags |-> <<>>,
     columns |-> <<[name |-> "b", description |-> "y", tests |-> <<>>]>>]

\* the records of one section: none, one, or two of different names
RecordLists(r) ==
    {<<>>}
    \cup {<<h>> : h \in HeadRecords(r)}
    \cup {<<h, TailRecord(IF h.name = r.name THEN OtherName(r) ELSE r.name)>> :
            h \in HeadRecords(r)}

OtherSection(r) == IF r.resource_type = "model" THEN "seeds" ELSE "models"

OtherSectionRecords ==
    <<[name |-> "countries", description |-> "c", tags |-> <<>>,
       columns |-> <<[name |-> "a", description |-> "z", tests |-> <<>>]>>]>>

ManualDocs(r) ==
    LET P == _SUPPORTED_RESOURCE_TYPES[r.resource_type]
        Q == OtherSection(r)
    IN  {[version |-> 2, sections |-> (Q :> OtherSectionRecords)]}
        \cup {[version |-> 2, sections |-> (P :> rs)] : rs \in RecordLists(r)}
        \cup {[version |-> 2,
               sections |-> (P :> rs) @@ (Q :> OtherSectionRecords)] :
                    rs \in RecordLists(r)}

ManualContents(r) ==
    {File("manual", NullDoc)} \cup {File("manual", d) : d \in ManualDocs(r)}

----------------------------------------------------------------------------
(* Spec: _create_property_file on one selected resource, and hand edits *)

NoCall == [op |-> "none"]

IdleBuild ==
    /\ threads = 1
    /\ pc = "idle"
    /\ submitted = 0
    /\ task = <<>>
    /\ reported = <<>>
    /\ successes = 0
    /\ failures = 0
    /\ exception_message = {}
    /\ tracebacks = <<>>
    /\ summary = [written |-> FALSE]

\* no answer has been typed yet
NoAnswer == "<none>"

\* the helper macro is in the project and nothing has asked for it yet
IdleMacro ==
    /\ project_macro = "present"
    /\ macro_location = "none"
    /\ macro_files = <<>>
    /\ initial_macro_files = <<>>
    /\ macro_checks = 0
    /\ add_confirmation = NoAnswer

IdleDelete ==
    /\ deletion_confirmation = NoAnswer
    /\ property_paths = <<>>

IdleMigrate ==
    /\ manifest = <<>>
    /\ migration_map = <<>>
    /\ group = 0
    /\ item = 0
    /\ existing_property_file_dict = NullDoc
    /\ indices_to_remove = <<>>
    /\ migration_log = <<>>

\* the values of the JSON log lines and of the arguments; a string is the
\* sequence of its characters
Str(chars) == [kind |-> "str", chars |-> chars]

List(items) == [kind |-> "list", items |-> items]

None == [kind |-> "none"]

\* _get_columns has not been called
NotCalled == [kind |-> "not called"]

IdleParse ==
    /\ result_lines = <<>>
    /\ returned_columns = NotCalled

\* fill has not been invoked
IdleFill ==
    /\ source_selection = <<>>
    /\ descriptions = <<>>
    /\ target_dict = NullDoc
    /\ cursor = [resource |-> 0, column |-> 0]
    /\ choice = NoAnswer
    /\ tally = [described |-> 0, not_described |-> <<>>]
    /\ fill_log = <<>>

\* no command of the tool has been invoked
IdleCommand ==
    /\ command = "none"
    /\ kwargs = [resource_type |-> None]
    /\ calls = <<>>

Init ==
    /\ initial_files = <<>>
    /\ IdleFill
    /\ IdleCommand
    /\ IdleParse
    /\ IdleMacro
    /\ IdleDelete
    /\ IdleMigrate
    /\ \E r \in {Orders, Items} :
        /\ selection = <<r>>
        /\ \E c \in {Absent} \cup ManualContents(r) :
              files = [p \in Paths |->
                          IF p = property_path(r.location) THEN c ELSE Absent]
    /\ warehouse = [n \in {r.name : r \in Resources} |-> Raised]
    /\ last = NoCall
    /\ IdleBuild

\* what one call of _create_property_file leaves on disk
created_property_file(content, resource_dict, out) ==
    IF out.raised
    THEN [raised |-> TRUE, content |-> content]
    ELSE LET s == _structure_property_file_dict(
                      content, resource_dict, out.columns)
         IN  IF s.raised
             THEN [raised |-> TRUE, content |-> content]
             ELSE [raised |-> FALSE, content |-> write_yaml(s.doc)]

\* properties.update on the selection with threads = 1: _get_columns
\* returns (or raises) out, and the file is reconciled with it
Update(i, out) ==
    LET r == selection[i]
        p == property_path(r.location)
        c == created_property_file(files[p], r, out)
    IN  /\ pc = "idle"
        /\ files' = [files EXCEPT ![p] = c.content]
        /\ last' = [op |-> "update", res |-> r, out |-> out,
                    before |-> files[p], raised |-> c.raised,
                    rerun |-> /\ last.op = "update"
                              /\ ~last.raised
                              /\ last.res = r
                              /\ last.out = out]
        /\ UNCHANGED <<initial_files, fillVars, commandVars, parseVars,
                       macroVars, deleteVars, migrateVars, warehouse,
                       selection, buildVars>>

\* a hand edit of the file at a property path: the edit of
\* test_create_update_delete_property_files (a description on the first
\* record and tests on its first column), a truncation, a deletion
EditKinds == {"annotate", "truncate", "delete"}

edited(content, plural, kind) ==
    LET hasRecord == /\ content.exists
                     /\ content.data # NullDoc
                     /\ plural \in DOMAIN content.data.sections
                     /\ Len(content.data.sections[plural]) > 0
    IN  CASE kind = "delete" -> Absent
          [] kind = "truncate" -> File("manual", NullDoc)
          [] kind = "annotate" /\ hasRecord ->
                LET rec == content.data.sections[plural][1]
                    cols == IF Len(rec.columns) > 0
                            THEN [rec.columns EXCEPT ![1].tests = <<"not_null">>]
                            ELSE rec.columns
                IN  File("manual",
                         [content.data EXCEPT
                            !.sections[plural][1] =
                                [rec EXCEPT !.description = "d",
                                            !.columns = cols]])
          [] OTHER -> content

\* between two runs somebody edits, truncates or deletes the property file
ManualEdit(i, kind) ==
    LET r == selection[i]
        p == property_path(r.location)
        c == edited(files[p], _SUPPORTED_RESOURCE_TYPES[r.resource_type], kind)
    IN  /\ pc = "idle"
        /\ c # files[p]
        /\ files' = [files EXCEPT ![p] = c]
        /\ last' = NoCall
        /\ UNCHANGED <<initial_files, fillVars, commandVars, parseVars,
                       macroVars, deleteVars, migrateVars, warehouse,
                       selection, buildVars>>

Next ==
    \/ \E i \in DOMAIN selection, out \in Introspections : Update(i, out)
    \/ \E i \in DOMAIN selection, kind \in EditKinds : ManualEdit(i, kind)

Spec == Init /\ [][Next]_vars

----------------------------------------------------------------------------
(* SpecBuild: one run of _create_all_property_files *)

N == Len(selection)

Futures == 1..N

PathOf(i) == property_path(selection[i].location)

Finished(i) == task[i].state \in {"ok", "raised"}

\* the work items a worker thread is running: between the [START] log of
\* _create_property_file and the return (or raise) of the call
InProgress == {i \in Futures : task[i].state \in {"running", "structured"}}

\* a property file with no section of the resource's type:
\* _structure_property_file_dict raises KeyError on it
ForeignDocument(r) ==
    File("manual",
         [version |-> 2, sections |-> (OtherSection(r) :> OtherSectionRecords)])

\* what dbt ls may select: resources of the catalog, each once, in any order
Selections ==
    {sel \in UNION {[1..n -> Resources] : n \in 0..Len(Catalog)} :
        \A i, j \in DOMAIN sel : sel[i] = sel[j] => i = j}

InitBuild ==
    /\ selection \in Selections
    /\ threads \in 1..MaxThreads
    /\ warehouse \in
          {w \in [{r.name : r \in Resources} ->
                    {Raised, [raised |-> FALSE, columns |-> <<"b", "a">>]}] :
              \A r \in Resources :
                  (\A i \in DOMAIN selection : selection[i] # r)
                      => w[r.name] = Raised}
    /\ files \in
          {f \in [Paths -> {Absent} \cup {ForeignDocument(r) : r \in Resources}] :
              \A r \in Resources :
                  LET c == f[property_path(r.location)]
                  IN  /\ c \in {Absent, ForeignDocument(r)}
                      /\ (\A i \in DOMAIN selection : selection[i] # r)
                            => c = Absent}
    /\ initial_files = files
    /\ IdleFill
    /\ IdleCommand
    /\ IdleParse
    /\ project_macro = "present"
    /\ macro_location = "none"
    /\ macro_files = <<>>
    /\ initial_macro_files = <<>>
    /\ macro_checks = 1
    /\ add_confirmation = NoAnswer
    /\ IdleDelete
    /\ IdleMigrate
    /\ last = NoCall
    /\ pc = "submit"
    /\ submitted = 0
    /\ task = [i \in DOMAIN selection |-> [state |-> "new"]]
    /\ reported = <<>>
    /\ successes = 0
    /\ failures = 0
    /\ exception_message = {}
    /\ tracebacks = <<>>
    /\ summary = [written |-> FALSE]

\* lines 583-594: one executor.submit per item of transformed_ls_results
Submit ==
    /\ pc = "submit"
    /\ submitted < N
    /\ submitted' = submitted + 1
    /\ task' = [task EXCEPT ![submitted + 1] = [state |-> "queued"]]
    /\ UNCHANGED <<initial_files, fillVars, commandVars, parseVars,
                   macroVars, deleteVars, migrateVars, files, warehouse,
                   selection, last, threads, pc, reported, successes,
                   failures, exception_message, tracebacks, summary>>

\* line 598: the comprehension is done, the loop over as_completed begins
EnterLoop ==
    /\ pc = "submit"
    /\ submitted = N
    /\ pc' = "collect"
    /\ UNCHANGED <<initial_files, fillVars, commandVars, parseVars,
                   macroVars, deleteVars, migrateVars, files, warehouse,
                   selection, last, threads, submitted, task, reported,
                   successes, failures, exception_message, tracebacks,
                   summary>>

\* no limit on the worker threads
free_worker_always == TRUE

\* ThreadPoolExecutor(max_workers=threads): at most threads worker threads,
\* each running one work item at a time
free_worker == Cardinality(InProgress) < threads

\* a work item starts only while no future has raised
TaskStart_unless_raised(i) ==
    /\ task[i].state = "queued"
    /\ \A j \in Futures : task[j].state # "raised"
    /\ \A j \in 1..(i - 1) : task[j].state # "queued"
    /\ free_worker
    /\ task' = [task EXCEPT ![i] = [state |-> "running"]]
    /\ UNCHANGED <<initial_files, fillVars, commandVars, parseVars,
                   macroVars, deleteVars, migrateVars, files, warehouse,
                   selection, last, threads, pc, submitted, reported,
                   successes, failures, exception_message, tracebacks,
                   summary>>

\* a worker takes the oldest queued work item and enters
\* _create_property_file (lines 723-727, the [START] log)
TaskStart(i) ==
    /\ task[i].state = "queued"
    /\ \A j \in 1..(i - 1) : task[j].state # "queued"
    /\ free_worker
    /\ task' = [task EXCEPT ![i] = [state |-> "running"]]
    /\ UNCHANGED <<initial_files, fillVars, commandVars, parseVars,
                   macroVars, deleteVars, migrateVars, files, warehouse,
                   selection, last, threads, pc, submitted, reported,
                   successes, failures, exception_message, tracebacks,
                   summary>>

\* the property file is opened for writing before the columns are known
TaskStructure_after_open(i) ==
    LET r == selection[i]
        out == warehouse[r.name]
        s == _structure_property_file_dict(files[PathOf(i)], r, out.columns)
    IN  /\ task[i].state = "running"
        /\ task' = [task EXCEPT ![i] =
                        IF out.raised THEN [state |-> "raised"]
                        ELSE IF s.raised THEN [state |-> "raised"]
                        ELSE [state |-> "structured", doc |-> s.doc]]
        /\ files' = [files EXCEPT ![PathOf(i)] = File("dumped", NullDoc)]
        /\ UNCHANGED <<initial_files, fillVars, commandVars, parseVars,
                       macroVars, deleteVars, migrateVars, warehouse,
                       selection, last, threads, pc, submitted, reported,
                       successes, failures, exception_message, tracebacks,
                       summary>>

\* lines 728-736: _get_columns, then _structure_property_file_dict on the
\* file as it is now; either may raise, which ends the work item
TaskStructure(i) ==
    LET r == selection[i]
        out == warehouse[r.name]
        s == _structure_property_file_dict(files[PathOf(i)], r, out.columns)
    IN  /\ task[i].state = "running"
        /\ task' = [task EXCEPT ![i] =
                        IF out.raised THEN [state |-> "raised"]
                        ELSE IF s.raised THEN [state |-> "raised"]
                        ELSE [state |-> "structured", doc |-> s.doc]]
        /\ UNCHANGED <<initial_files, fillVars, commandVars, parseVars,
                       macroVars, deleteVars, migrateVars, files, warehouse,
                       selection, last, threads, pc, submitted, reported,
                       successes, failures, exception_message, tracebacks,
                       summary>>

\* lines 737-740: write_yaml, and the call returns
TaskWrite(i) ==
    /\ task[i].state = "structured"
    /\ files' = [files EXCEPT ![PathOf(i)] = write_yaml(task[i].doc)]
    /\ task' = [task EXCEPT ![i] = [state |-> "ok"]]
    /\ UNCHANGED <<initial_files, fillVars, commandVars, parseVars,
                   macroVars, deleteVars, migrateVars, warehouse, selection,
                   last, threads, pc, submitted, reported, successes,
                   failures, exception_message, tracebacks, summary>>

Yielded == {reported[k].index : k \in DOMAIN reported}

\* lines 598-619: as_completed yields a finished future it has not yielded
\* yet, and the loop body logs and counts it
Collect(i) ==
    /\ pc = "collect"
    /\ Finished(i)
    /\ i \notin Yielded
    /\ IF task[i].state = "raised"
       THEN /\ reported' = Append(reported, [index |-> i, log |-> "FAILURE"])
            /\ failures' = failures + 1
            /\ exception_message' = exception_message \cup {i}
            /\ UNCHANGED successes
       ELSE /\ reported' = Append(reported, [index |-> i, log |-> "SUCCESS"])
            /\ successes' = successes + 1
            /\ UNCHANGED <<failures, exception_message>>
    /\ UNCHANGED <<initial_files, fillVars, commandVars, parseVars,
                   macroVars, deleteVars, migrateVars, files, warehouse,
                   selection, last, threads, pc, submitted, task, tracebacks,
                   summary>>

\* the loop ends after the first future
as_completed_exhausted_early == Len(reported) >= 1 \/ N = 0

\* as_completed stops after it has yielded every future of futures
as_completed_exhausted == Len(reported) = N

\* line 619 to 620: the loop ends and the with block exits, which is
\* executor.shutdown(wait=True): it returns when every work item is done
ExitPool ==
    /\ pc = "collect"
    /\ as_completed_exhausted
    /\ \A i \in Futures : Finished(i)
    /\ pc' = "joined"
    /\ UNCHANGED <<initial_files, fillVars, commandVars, parseVars,
                   macroVars, deleteVars, migrateVars, files, warehouse,
                   selection, last, threads, submitted, task, reported,
                   successes, failures, exception_message, tracebacks,
                   summary>>

\* the messages in the order as_completed yielded the futures
exception_messages_as_completed ==
    SelectSeq([k \in DOMAIN reported |-> reported[k].index],
              LAMBDA i : i \in exception_message)

\* lines 622-629: for future in futures, a dict, so in submission order
exception_messages ==
    SelectSeq([i \in Futures |-> i], LAMBDA i : i \in exception_message)

\* lines 621-634: the tracebacks of all failures, in one log record
LogTracebacks ==
    /\ pc = "joined"
    /\ tracebacks' = IF failures # 0 THEN exception_messages ELSE <<>>
    /\ pc' = "summary"
    /\ UNCHANGED <<initial_files, fillVars, commandVars, parseVars,
                   macroVars, deleteVars, migrateVars, files, warehouse,
                   selection, last, threads, submitted, task, reported,
                   successes, failures, exception_message, summary>>

\* lines 636-641: the [DONE] record
LogSummary ==
    /\ pc = "summary"
    /\ summary' = [written |-> TRUE, total |-> successes + failures,
                   successes |-> successes, failures |-> failures]
    /\ pc' = "done"
    /\ UNCHANGED <<initial_files, fillVars, commandVars, parseVars,
                   macroVars, deleteVars, migrateVars, files, warehouse,
                   selection, last, threads, submitted, task, reported,
                   successes, failures, exception_message, tracebacks>>

NextBuild ==
    \/ Submit
    \/ EnterLoop
    \/ \E i \in Futures : TaskStart(i)
    \/ \E i \in Futures : TaskStructure(i)
    \/ \E i \in Futures : TaskWrite(i)
    \/ \E i \in Futures : Collect(i)
    \/ ExitPool
    \/ LogTracebacks
    \/ LogSummary

SpecBuild == InitBuild /\ [][NextBuild]_vars

\* the threads of the pool and the main thread keep running: a step that
\* stays possible is taken
FairSpecBuild == SpecBuild /\ WF_vars(NextBuild)

----------------------------------------------------------------------------
(* SpecShared: the run of _create_all_property_files over a project whose  *)
(* seed-paths and snapshot-paths are one directory                         *)

\* the snapshot block items_snapshot of the file data/items.sql, next to
\* the seed data/items.csv
ItemsSnapshot ==
    [name |-> "items_snapshot", resource_type |-> "snapshot",
     location |-> [dir |-> "data", stem |-> "items", suffix |-> "sql"]]

SharedCatalog == <<Items, ItemsSnapshot, Orders>>

SharedResources == {SharedCatalog[i] : i \in DOMAIN SharedCatalog}

SharedSelections ==
    {sel \in UNION {[1..n -> SharedResources] : n \in 0..Len(SharedCatalog)} :
        \A i, j \in DOMAIN sel : sel[i] = sel[j] => i = j}

InitShared ==
    /\ selection \in SharedSelections
    /\ threads \in 1..MaxThreads
    /\ warehouse \in
          {w \in [{r.name : r \in SharedResources} ->
                    {Raised, [raised |-> FALSE, columns |-> <<"b", "a">>]}] :
              \A r \in SharedResources :
                  (\A i \in DOMAIN selection : selection[i] # r)
                      => w[r.name] = Raised}
    /\ files = [p \in {property_path(r.location) : r \in SharedResources}
                  |-> Absent]
    /\ initial_files = files
    /\ IdleFill
    /\ IdleCommand
    /\ IdleParse
    /\ project_macro = "present"
    /\ macro_location = "none"
    /\ macro_files = <<>>
    /\ initial_macro_files = <<>>
    /\ macro_checks = 1
    /\ add_confirmation = NoAnswer
    /\ IdleDelete
    /\ IdleMigrate
    /\ last = NoCall
    /\ pc = "submit"
    /\ submitted = 0
    /\ task = [i \in DOMAIN selection |-> [state |-> "new"]]
    /\ reported = <<>>
    /\ successes = 0
    /\ failures = 0
    /\ exception_message = {}
    /\ tracebacks = <<>>
    /\ summary = [written |-> FALSE]

SpecShared == InitShared /\ [][NextBuild]_vars

----------------------------------------------------------------------------
(* SpecRun: _create_all_property_files from its first line: the check of   *)
(* the helper macro, add_macro when it is missing, then the pool           *)

\* str.lower() of what the user types
lower(s) ==
    CASE s = "Y" -> "y"
      [] s = "N" -> "n"
      [] s = "A" -> "a"
      [] s = "SQL" -> "sql"
      [] OTHER -> s

\* what the user may type at a yes/no prompt
Answers == {"y", "Y", "n", "N", "a", "A", "x"}

\* _utils.macro_exists: dbt run-operation on the macro; a 'Runtime Error
\* ... not find ... <macro_name>' means the macro is missing, any other
\* exception is logged and the macro is taken to exist
macro_exists == project_macro # "missing"

\* line 577-579 of properties.py: the one call of macro_exists
CheckMacro ==
    /\ pc = "macro_exists"
    /\ macro_checks' = macro_checks + 1
    /\ pc' = IF macro_exists THEN "submit" ELSE "add_macro"
    /\ UNCHANGED <<initial_files, fillVars, commandVars, parseVars,
                   deleteVars, migrateVars, files, warehouse, selection,
                   last, threads, submitted, task, reported, successes,
                   failures, exception_message, tracebacks, summary,
                   project_macro, macro_location, add_confirmation,
                   macro_files, initial_macro_files>>

_MACRO_NAME == "_log_columns_list"

\* the text of the macro, as one piece
MACROS ==
    [_log_columns_list |->
        "{% macro _log_columns_list(sql=none, resource_name=none) %}"]

get_macro(macro_name) == MACROS[macro_name]

\* _utils.py:338: <the first macro path>/<macro name>.sql
MacroLocation(macro_name) ==
    [in_macro_paths |-> TRUE, suffix |-> "sql", file |-> macro_name]

\* a macro file holds the texts written to it, in order
MacroFile(texts) == [exists |-> TRUE, texts |-> texts]

\* the file is opened with 'w'
appended_after_truncation(content, text) == MacroFile(<<text>>)

\* _utils.py:389-390: the file is opened with 'a' and the text written
appended(content, text) ==
    MacroFile((IF content.exists THEN content.texts ELSE <<>>) \o <<text>>)

\* 'n' never ends the run
aborted_never(answer) == FALSE

\* _utils.py:355-357: 'n' (or 'N') is sys.exit()
aborted(answer) == lower(answer) = "n"

\* _utils.py:352-390: one return of input() at the install prompt: the
\* prompt is repeated until the answer is y, n or a; n exits, a asks for
\* another location, y appends the macro to macro_paths[0]/<macro>.sql
AddMacroAnswer(answer) ==
    /\ pc = "add_macro"
    /\ add_confirmation' = answer
    /\ IF lower(answer) \notin {"y", "n", "a"}
       THEN UNCHANGED <<pc, macro_location, project_macro, macro_files>>
       ELSE IF aborted(answer)
       THEN /\ pc' = "exited"
            /\ UNCHANGED <<macro_location, project_macro, macro_files>>
       ELSE IF lower(answer) = "a"
       THEN /\ pc' = "alternate_prompt"
            /\ UNCHANGED <<macro_location, project_macro, macro_files>>
       ELSE /\ macro_location' = MacroLocation(_MACRO_NAME)
            /\ macro_files' =
                    [macro_files EXCEPT ![MacroLocation(_MACRO_NAME)] =
                        appended(@, get_macro(_MACRO_NAME))]
            /\ project_macro' = "present"
            /\ pc' = "submit"
    /\ UNCHANGED <<initial_files, fillVars, commandVars, parseVars,
                   deleteVars, migrateVars, files, warehouse, selection,
                   last, threads, submitted, task, reported, successes,
                   failures, exception_message, tracebacks, summary,
                   macro_checks, initial_macro_files>>

\* the paths the user may type at the alternate prompt: in one of the
\* macro paths or not, with a suffix
AlternateLocations ==
    [in_macro_paths : BOOLEAN, suffix : {"sql", "SQL", "txt"},
     file : {"helpers"}]

\* _utils.py:364-390: one return of input() at the alternate prompt: asked
\* again until the parent is a macro path and the suffix is .sql, then the
\* macro is appended to that file
AlternateLocation(location) ==
    /\ pc = "alternate_prompt"
    /\ IF ~location.in_macro_paths \/ lower(location.suffix) # "sql"
       THEN UNCHANGED <<pc, macro_location, project_macro, macro_files>>
       ELSE /\ macro_location' = location
            /\ macro_files' = [macro_files EXCEPT ![location] =
                                  appended(@, get_macro(_MACRO_NAME))]
            /\ project_macro' = "present"
            /\ pc' = "submit"
    /\ UNCHANGED <<initial_files, fillVars, commandVars, parseVars,
                   deleteVars, migrateVars, files, warehouse, selection,
                   last, threads, submitted, task, reported, successes,
                   failures, exception_message, tracebacks, summary,
                   macro_checks, add_confirmation, initial_macro_files>>

RunSelections ==
    {sel \in UNION {[1..n -> {Orders, Items}] : n \in 0..2} :
        \A i, j \in DOMAIN sel : sel[i] = sel[j] => i = j}

\* the files that add_macro may write
MacroLocations ==
    {MacroLocation(_MACRO_NAME)}
    \cup {location \in AlternateLocations :
            location.in_macro_paths /\ lower(location.suffix) = "sql"}

InitRun ==
    /\ \E texts \in {<<>>, <<"{% macro other() %}">>} :
          macro_files = [location \in MacroLocations |->
                            IF location = MacroLocation(_MACRO_NAME)
                                  /\ texts # <<>>
                            THEN MacroFile(texts) ELSE Absent]
    /\ initial_macro_files = macro_files
    /\ selection \in RunSelections
    /\ threads \in 1..MaxThreads
    /\ project_macro \in {"present", "missing", "broken"}
    /\ warehouse \in
          {w \in [{r.name : r \in Resources} ->
                    {Raised, [raised |-> FALSE, columns |-> <<"b", "a">>]}] :
              \A r \in Resources :
                  (\/ \A i \in DOMAIN selection : selection[i] # r
                   \/ project_macro = "broken")
                      => w[r.name] = Raised}
    /\ files = [p \in Paths |-> Absent]
    /\ initial_files = files
    /\ IdleFill
    /\ IdleCommand
    /\ IdleParse
    /\ macro_location = "none"
    /\ macro_checks = 0
    /\ add_confirmation = NoAnswer
    /\ IdleDelete
    /\ IdleMigrate
    /\ last = NoCall
    /\ pc = "macro_exists"
    /\ submitted = 0
    /\ task = [i \in DOMAIN selection |-> [state |-> "new"]]
    /\ reported = <<>>
    /\ successes = 0
    /\ failures = 0
    /\ exception_message = {}
    /\ tracebacks = <<>>
    /\ summary = [written |-> FALSE]

NextRun ==
    \/ CheckMacro
    \/ \E answer \in Answers : AddMacroAnswer(answer)
    \/ \E location \in AlternateLocations : AlternateLocation(location)
    \/ NextBuild

SpecRun == InitRun /\ [][NextRun]_vars

----------------------------------------------------------------------------
(* SpecDelete: properties.delete, that is _delete_all_property_files       *)

\* a property file that documents more than one resource
SchemaPath == [dir |-> "models", stem |-> "schema", suffix |-> "yml"]

\* the property file update creates for a resource without columns
CreatedFile(r) == write_yaml(_get_property_header(r.name, r.resource_type))

InitDelete ==
    /\ selection \in Selections
    /\ files \in
          {f \in [Paths \cup {SchemaPath} ->
                    {Absent} \cup {CreatedFile(r) : r \in Resources}] :
              /\ \A r \in Resources :
                    f[property_path(r.location)] \in {Absent, CreatedFile(r)}
              /\ f[SchemaPath] \in {Absent, CreatedFile(Customers)}}
    /\ initial_files = files
    /\ IdleFill
    /\ IdleCommand
    /\ IdleParse
    /\ warehouse = [n \in {r.name : r \in Resources} |-> Raised]
    /\ last = NoCall
    /\ threads = 1
    /\ pc = "delete"
    /\ submitted = 0
    /\ task = <<>>
    /\ reported = <<>>
    /\ successes = 0
    /\ failures = 0
    /\ exception_message = {}
    /\ tracebacks = <<>>
    /\ summary = [written |-> FALSE]
    /\ IdleMacro
    /\ IdleDelete
    /\ IdleMigrate

\* lines 655-663: the property paths of the selected resources that exist
existing_property_paths ==
    SelectSeq([i \in DOMAIN selection |-> property_path(selection[i].location)],
              LAMBDA p : files[p].exists)

\* lines 655-669 and 695-696: the files are listed; with none to delete
\* the command says so and returns without a prompt
ListPropertyPaths ==
    /\ pc = "delete"
    /\ property_paths' = existing_property_paths
    /\ pc' = IF Len(existing_property_paths) > 0
             THEN "confirm" ELSE "nothing_to_delete"
    /\ UNCHANGED <<initial_files, fillVars, commandVars, parseVars,
                   macroVars, migrateVars, files, warehouse, selection, last,
                   threads, submitted, task, reported, successes, failures,
                   exception_message, tracebacks, summary,
                   deletion_confirmation>>

\* lines 690-691: os.remove on each listed file, in order; on a file that
\* is gone os.remove raises FileNotFoundError and the loop ends there
RECURSIVE removed(_, _)
removed(f, paths) ==
    IF paths = <<>>
    THEN [raised |-> FALSE, files |-> f]
    ELSE IF ~f[Head(paths)].exists
    THEN [raised |-> TRUE, files |-> f]
    ELSE removed([f EXCEPT ![Head(paths)] = Absent], Tail(paths))

\* only the lower-case y deletes
deletion_confirmed_exact(answer) == answer = "y"

\* line 689
deletion_confirmed(answer) == lower(answer) = "y"

\* lines 678-694: one return of input() at the deletion prompt: asked
\* again until the answer is y or n; y removes the listed files
DeletionAnswer(answer) ==
    /\ pc = "confirm"
    /\ deletion_confirmation' = answer
    /\ IF lower(answer) \notin {"y", "n"}
       THEN UNCHANGED <<pc, files>>
       ELSE IF deletion_confirmed(answer)
       THEN LET d == removed(files, property_paths)
            IN  /\ files' = d.files
                /\ pc' = IF d.raised THEN "raised" ELSE "deleted"
       ELSE /\ pc' = "aborted"
            /\ UNCHANGED files
    /\ UNCHANGED <<initial_files, fillVars, commandVars, parseVars,
                   macroVars, migrateVars, warehouse, selection, last,
                   threads, submitted, task, reported, successes, failures,
                   exception_message, tracebacks, summary, property_paths>>

NextDelete ==
    \/ ListPropertyPaths
    \/ \E answer \in Answers : DeletionAnswer(answer)

SpecDelete == InitDelete /\ [][NextDelete]_vars

----------------------------------------------------------------------------
(* SpecMigrate: properties.migrate *)

\* a node of the manifest without patch_path: no property file documents it
NoPatch == [none |-> TRUE]

\* the record of a resource in the property file that documents it
DocumentedRecord(r) ==
    [name |-> r.name, description |-> "d", tags |-> <<"pii">>,
     columns |-> <<[name |-> "a", description |-> "x",
                    tests |-> <<"not_null">>]>>]

\* the record of a model that is no longer in the project
LegacyRecord ==
    [name |-> "legacy", description |-> "l", tags |-> <<>>,
     columns |-> <<>>]

\* the property files that may document a resource: one shared file, or
\* the file next to a resource
SourcePaths == {SchemaPath} \cup Paths

\* the patch_path dbt may record for a resource: none, the shared file, the
\* file next to the resource, or for the second model the file next to the
\* first
PatchPaths(r) ==
    {NoPatch, SchemaPath, property_path(r.location)}
    \cup (IF r = Customers THEN {property_path(Orders.location)} ELSE {})

\* the nodes of the manifest: every resource of the catalog, in order
Manifests ==
    {m \in [DOMAIN Catalog -> [resource : Resources,
                                patch_path : {NoPatch} \cup SourcePaths]] :
        \A i \in DOMAIN Catalog :
            /\ m[i].resource = Catalog[i]
            /\ m[i].patch_path \in PatchPaths(Catalog[i])}

\* the records the file at path p holds for the section plural, as the
\* manifest m has them: a record for each resource patched by p, in order
DocumentedRecords(m, p, plural) ==
    LET keep(node) ==
            /\ node.patch_path = p
            /\ _SUPPORTED_RESOURCE_TYPES[node.resource.resource_type] = plural
        nodes == SelectSeq(m, keep)
    IN  [i \in DOMAIN nodes |-> DocumentedRecord(nodes[i].resource)]

\* the sections of a document from the record lists, empty lists left out
Sections(models, seeds) ==
    LET all == [models |-> models, seeds |-> seeds]
    IN  [plural \in {q \in {"models", "seeds"} : all[q] # <<>>} |-> all[plural]]

\* the file at path p of a project whose manifest is m; legacy tells if the
\* models section starts with the record of a model that is gone
SourceFile(m, p, legacy) ==
    LET models == (IF legacy THEN <<LegacyRecord>> ELSE <<>>)
                  \o DocumentedRecords(m, p, "models")
        seeds == DocumentedRecords(m, p, "seeds")
    IN  File("manual", [version |-> 2, sections |-> Sections(models, seeds)])

Documents(m, p) == \E i \in DOMAIN m : m[i].patch_path = p

\* the keyword parameters of _utils.write_yaml with mode
write_yaml_parameters_with_mode == {"location", "data", "mode"}

\* _utils.py:82, def write_yaml(location, data)
write_yaml_parameters == {"location", "data"}

\* properties.py:407-411, write_yaml(property_path, property_file_dict,
\* mode='x') on the project directory f: a keyword that is no parameter is
\* a TypeError before the body runs; the body opens the location with 'w'
write_yaml_mode_x(f, location, data) ==
    IF "mode" \notin write_yaml_parameters
    THEN [raised |-> TRUE, files |-> f]
    ELSE [raised |-> FALSE, files |-> [f EXCEPT ![location] = write_yaml(data)]]

\* properties.py:875-892 with properties given: the header around them
_get_property_header_properties(resource, resource_type, properties) ==
    [version |-> 2,
     sections |-> (_SUPPORTED_RESOURCE_TYPES[resource_type] :> <<properties>>)]

\* every resource counts as selected
selected_always(resource_location) == TRUE

\* line 337: original_file_path is a key of transformed_ls_results
selected(resource_location) ==
    \E i \in DOMAIN selection : selection[i].location = resource_location

\* lines 351-360: the entry of a resource in its group of migration_map
MigrationEntry(r) ==
    [name |-> r.name,
     resource_type |-> r.resource_type,
     resource_type_plural |-> _SUPPORTED_RESOURCE_TYPES[r.resource_type],
     resource_path |-> r.location,
     property_path |-> property_path(r.location)]

\* lines 327-361 over the first k nodes: the selected nodes that have a
\* patch_path, grouped by it, groups and entries in the order met
RECURSIVE migration_map_of(_, _)
migration_map_of(nodes, k) ==
    IF k = 0
    THEN <<>>
    ELSE LET mm == migration_map_of(nodes, k - 1)
             node == nodes[k]
             entry == MigrationEntry(node.resource)
         IN  IF ~selected(node.resource.location)
             THEN mm
             ELSE IF node.patch_path = NoPatch
             THEN mm
             ELSE IF \E g \in DOMAIN mm :
                        mm[g].existing_property_path = node.patch_path
             THEN [g \in DOMAIN mm |->
                      IF mm[g].existing_property_path = node.patch_path
                      THEN [mm[g] EXCEPT !.resource_list = Append(@, entry)]
                      ELSE mm[g]]
             ELSE Append(mm, [existing_property_path |-> node.patch_path,
                              resource_list |-> <<entry>>])

\* the place of a section among the keys of a property file
SectionRank(plural) ==
    CASE plural = "models" -> 1
      [] plural = "seeds" -> 2
      [] plural = "snapshots" -> 3
      [] OTHER -> 4

\* lines 376-385: name -> section, index and record, over the sections of
\* the relevant types; of two records of one name the later one stays
existing_properties(doc, relevant_resource_types_plural) ==
    LET entries ==
            UNION {{[resource_type_plural |-> k, index |-> i,
                     properties |-> doc.sections[k][i]] :
                        i \in DOMAIN doc.sections[k]} :
                   k \in DOMAIN doc.sections
                         \cap relevant_resource_types_plural}
        later(e, o) ==
            \/ SectionRank(e.resource_type_plural)
                  > SectionRank(o.resource_type_plural)
            \/ /\ e.resource_type_plural = o.resource_type_plural
               /\ e.index >= o.index
    IN  [n \in {e.properties.name : e \in entries} |->
            CHOOSE e \in entries :
                /\ e.properties.name = n
                /\ \A o \in entries : o.properties.name = n => later(e, o)]

\* the index is kept whether or not the file was created
mark_always(indices, raised, entry) == Append(indices, entry)

\* lines 412-414, reached only when write_yaml has returned
mark(indices, raised, entry) ==
    IF raised THEN indices ELSE Append(indices, entry)

\* the first failure ends the loop over the group
next_item_until_failure(i, n, raised) == IF raised THEN n + 1 ELSE i + 1

\* lines 389 and 416-419: the exception is logged and the loop goes on
\* with the next resource of the group
next_item(i, n, raised) == i + 1

\* list.pop(i), the positions counted from 1
pop(s, i) == [j \in 1..(Len(s) - 1) |-> IF j < i THEN s[j] ELSE s[j + 1]]

\* the indices in the order in which they were marked
sorted_reverse_as_marked(indices) == indices

\* sorted(indices, reverse=True)
RECURSIVE sorted_reverse(_)
sorted_reverse(indices) ==
    IF indices = <<>>
    THEN <<>>
    ELSE LET m == CHOOSE j \in DOMAIN indices :
                      \A l \in DOMAIN indices : indices[j] >= indices[l]
         IN  <<indices[m]>> \o sorted_reverse(pop(indices, m))

\* line 423-425: the pops of one section, highest index first
RECURSIVE popped(_, _)
popped(s, indices) ==
    IF indices = <<>>
    THEN s
    ELSE popped(pop(s, Head(indices)), Tail(indices))

\* lines 422-429: the marked records leave their sections, and a section
\* of indices_to_remove that is left empty leaves the document
remaining(doc, indices) ==
    LET touched == {indices[j].resource_type_plural : j \in DOMAIN indices}
        of(plural) ==
            LET es == SelectSeq(indices,
                        LAMBDA e : e.resource_type_plural = plural)
            IN  [j \in DOMAIN es |-> es[j].index]
        left(plural) ==
            IF plural \in touched
            THEN popped(doc.sections[plural], sorted_reverse(of(plural)))
            ELSE doc.sections[plural]
    IN  [doc EXCEPT !.sections =
            [plural \in {q \in DOMAIN doc.sections :
                            q \notin touched \/ left(q) # <<>>}
                |-> left(plural)]]

\* every file counts as holding only the version marker
only_version_marker_always(content) == TRUE

\* line 446: read_text().strip().lower() == "version: 2", the text that
\* yaml.safe_dump writes for a document with the version and no section
only_version_marker(content) ==
    /\ content.exists
    /\ content.style = "dumped"
    /\ content.data # NullDoc
    /\ content.data.version = 2
    /\ DOMAIN content.data.sections = {}

\* the project after dbt ls has parsed it: the manifest tells which file
\* documents which resource, a file that documents a resource holds its
\* record, and a file that documents none is absent or documents
\* something else
InitMigrate ==
    /\ selection \in Selections
    /\ manifest \in Manifests
    /\ \E legacy \in BOOLEAN, foreign \in [Paths -> BOOLEAN] :
          files =
              [p \in SourcePaths |->
                  IF Documents(manifest, p)
                  THEN SourceFile(manifest, p, legacy)
                  ELSE IF p = SchemaPath \/ ~foreign[p]
                  THEN Absent
                  ELSE ForeignDocument(
                          CHOOSE r \in Resources :
                              property_path(r.location) = p)]
    /\ initial_files = files
    /\ IdleFill
    /\ IdleCommand
    /\ IdleParse
    /\ warehouse = [n \in {r.name : r \in Resources} |-> Raised]
    /\ last = NoCall
    /\ threads = 1
    /\ pc = "migrate"
    /\ submitted = 0
    /\ task = <<>>
    /\ reported = <<>>
    /\ successes = 0
    /\ failures = 0
    /\ exception_message = {}
    /\ tracebacks = <<>>
    /\ summary = [written |-> FALSE]
    /\ IdleMacro
    /\ IdleDelete
    /\ migration_map = <<>>
    /\ group = 0
    /\ item = 0
    /\ existing_property_file_dict = NullDoc
    /\ indices_to_remove = <<>>
    /\ migration_log = <<>>

\* lines 303-361: the manifest is read and migration_map is built
BuildMigrationMap ==
    /\ pc = "migrate"
    /\ migration_map' = migration_map_of(manifest, Len(manifest))
    /\ group' = 1
    /\ pc' = "group"
    /\ UNCHANGED <<initial_files, fillVars, commandVars, parseVars,
                   macroVars, deleteVars, files, warehouse, selection, last,
                   threads, submitted, task, reported, successes, failures,
                   exception_message, tracebacks, summary, manifest, item,
                   existing_property_file_dict, indices_to_remove,
                   migration_log>>

\* lines 363-385: the next group: its property file is parsed once
ReadGroup ==
    /\ pc = "group"
    /\ group <= Len(migration_map)
    /\ existing_property_file_dict' =
          parse_yaml(files[migration_map[group].existing_property_path])
    /\ indices_to_remove' = <<>>
    /\ item' = 1
    /\ pc' = "resource"
    /\ UNCHANGED <<initial_files, fillVars, commandVars, parseVars,
                   macroVars, deleteVars, files, warehouse, selection, last,
                   threads, submitted, task, reported, successes, failures,
                   exception_message, tracebacks, summary, manifest,
                   migration_map, group, migration_log>>

\* lines 389-419: the next resource of the group: skipped when its record
\* is in place, else its record is written under a header to its own
\* property file, and on success its index is kept for removal
MigrateResource ==
    LET g == migration_map[group]
        resource == g.resource_list[item]
        relevant == {g.resource_list[j].resource_type_plural :
                        j \in DOMAIN g.resource_list}
        properties == existing_properties(existing_property_file_dict,
                                          relevant)
        moving == [event |-> "Moving", name |-> resource.name]
        failed == [event |-> "Failed to create", name |-> resource.name]
        created == [event |-> "Created", name |-> resource.name]
    IN  /\ pc = "resource"
        /\ item <= Len(g.resource_list)
        /\ IF g.existing_property_path = resource.property_path
           THEN /\ item' = item + 1
                /\ UNCHANGED <<files, indices_to_remove, migration_log, last>>
           ELSE IF resource.name \notin DOMAIN properties
           THEN /\ item' = next_item(item, Len(g.resource_list), TRUE)
                /\ migration_log' = migration_log \o <<moving, failed>>
                /\ UNCHANGED <<files, indices_to_remove, last>>
           ELSE LET found == properties[resource.name]
                    w == write_yaml_mode_x(
                            files, resource.property_path,
                            _get_property_header_properties(
                                resource.name, resource.resource_type,
                                found.properties))
                IN  /\ files' = w.files
                    /\ indices_to_remove' =
                          mark(indices_to_remove, w.raised,
                               [resource_type_plural |->
                                    resource.resource_type_plural,
                                index |-> found.index])
                    /\ migration_log' =
                          migration_log
                          \o <<moving, IF w.raised THEN failed ELSE created>>
                    /\ item' = next_item(item, Len(g.resource_list), w.raised)
                    /\ last' = [op |-> "write_yaml",
                                resource |-> resource,
                                data |-> _get_property_header_properties(
                                            resource.name,
                                            resource.resource_type,
                                            found.properties),
                                index |-> found.index]
        /\ UNCHANGED <<initial_files, fillVars, commandVars, parseVars,
                       macroVars, deleteVars, warehouse, selection, threads,
                       pc, submitted, task, reported, successes, failures,
                       exception_message, tracebacks, summary, manifest,
                       migration_map, group, existing_property_file_dict>>

\* lines 420-444: the group is through: the marked records are popped and
\* the property file of the group is written again
RewriteSource ==
    LET g == migration_map[group]
        d == remaining(existing_property_file_dict, indices_to_remove)
    IN  /\ pc = "resource"
        /\ item > Len(g.resource_list)
        /\ existing_property_file_dict' = d
        /\ files' = [files EXCEPT ![g.existing_property_path] = write_yaml(d)]
        /\ pc' = "unlink"
        /\ UNCHANGED <<initial_files, fillVars, commandVars, parseVars,
                       macroVars, deleteVars, warehouse, selection, last,
                       threads, submitted, task, reported, successes,
                       failures, exception_message, tracebacks, summary,
                       manifest, migration_map, group, item,
                       indices_to_remove, migration_log>>

\* lines 445-456: the property file of the group is deleted when only the
\* version is left in it, and the loop goes to the next group
DeleteIfVersionOnly ==
    LET p == migration_map[group].existing_property_path
    IN  /\ pc = "unlink"
        /\ files' = IF only_version_marker(files[p])
                    THEN [files EXCEPT ![p] = Absent]
                    ELSE files
        /\ group' = group + 1
        /\ pc' = "group"
        /\ UNCHANGED <<initial_files, fillVars, commandVars, parseVars,
                       macroVars, deleteVars, warehouse, selection, last,
                       threads, submitted, task, reported, successes,
                       failures, exception_message, tracebacks, summary,
                       manifest, migration_map, item,
                       existing_property_file_dict, indices_to_remove,
                       migration_log>>

\* line 363: no group is left and migrate returns
Migrated ==
    /\ pc = "group"
    /\ group > Len(migration_map)
    /\ pc' = "migrated"
    /\ UNCHANGED <<initial_files, fillVars, commandVars, parseVars,
                   macroVars, deleteVars, migrateVars, files, warehouse,
                   selection, last, threads, submitted, task, reported,
                   successes, failures, exception_message, tracebacks,
                   summary>>

NextMigrate ==
    \/ BuildMigrationMap
    \/ ReadGroup
    \/ MigrateResource
    \/ RewriteSource
    \/ DeleteIfVersionOnly
    \/ Migrated

SpecMigrate == InitMigrate /\ [][NextMigrate]_vars

----------------------------------------------------------------------------
(* _get_columns: from the log lines of dbt run-operation to the columns *)

\* the longest output of dbt run-operation, in lines
MaxLines == 3

\* an exception leaves _get_columns
Raises(exception) == [kind |-> "raised", exception |-> exception]

M011 == Str(<<"M", "0", "1", "1">>)

\* a code of another event of dbt
A001 == Str(<<"A", "0", "0", "1">>)

\* dict.get(key, default)
get(d, key, default) == IF key \in DOMAIN d THEN d[key] ELSE default

\* the lambda of the filter
relevant(x) == get(x, "code", get(get(x, "info", <<>>), "code", None)) = M011

relevant_line_first(relevant_lines) == relevant_lines[1]

\* relevant_lines[-1]
relevant_line(relevant_lines) == relevant_lines[Len(relevant_lines)]

fallback_line_first(relevant_lines) == relevant_lines[1]

\* relevant_lines[-1] of the older dbt-core versions; a list without
\* elements has no last one
fallback_line(relevant_lines) == relevant_lines[Len(relevant_lines)]

is_string_list(value) ==
    /\ value.kind = "str"
    /\ value.chars # <<>>
    /\ value.chars[1] = "["
    /\ value.chars[Len(value.chars)] = "]"

RECURSIVE Concat(_)
Concat(chars) ==
    IF chars = <<>> THEN "" ELSE chars[1] \o Concat(Tail(chars))

\* where the string literal that opens before position i closes; 0 when it
\* does not
RECURSIVE closing(_, _)
closing(s, i) ==
    IF i > Len(s) THEN 0
    ELSE IF s[i] = "'" THEN i
    ELSE closing(s, i + 1)

\* the list display that s holds from position i on, items being the
\* elements read so far; an element is a string literal in single quotes,
\* blanks between the tokens do not count, a comma may trail the last element
RECURSIVE list_display(_, _, _, _)
list_display(s, i, expect, items) ==
    IF i > Len(s) THEN Raises("SyntaxError")
    ELSE IF s[i] = " " THEN list_display(s, i + 1, expect, items)
    ELSE IF s[i] = "]"
        THEN IF i = Len(s) THEN List(items) ELSE Raises("SyntaxError")
    ELSE IF expect = "separator"
        THEN IF s[i] = ","
                THEN list_display(s, i + 1, "element", items)
                ELSE Raises("SyntaxError")
    ELSE IF s[i] = "'"
        THEN LET j == closing(s, i + 1) IN
             IF j = 0 THEN Raises("SyntaxError")
             ELSE list_display(s, j + 1, "separator",
                               Append(items, Concat(SubSeq(s, i + 1, j - 1))))
    ELSE Raises("ValueError")

\* ast.literal_eval of a string that begins with a bracket
literal_eval(chars) == list_display(chars, 2, "element", <<>>)

\* the columns of the lines, before the string list is evaluated
logged_columns(lines) ==
    LET relevant_lines == SelectSeq(lines, relevant) IN
    IF Len(relevant_lines) >= 1
        THEN LET line == relevant_line(relevant_lines) IN
             get(line, "msg", get(get(line, "info", <<>>), "msg", None))
        ELSE LET older == SubSeq(lines, 2, Len(lines)) IN
             IF older = <<>> THEN Raises("IndexError")
             ELSE get(fallback_line(older), "message", None)

\* what _get_columns makes of the lines of dbt_run_operation
_get_columns(lines) ==
    LET logged == logged_columns(lines) IN
    IF is_string_list(logged) THEN literal_eval(logged.chars) ELSE logged

\* str(list) of Python for a list of names, as the log function of the
\* macro writes it
RECURSIVE str_items(_)
str_items(names) ==
    IF names = <<>> THEN <<>>
    ELSE <<"'", names[1], "'">>
         \o (IF Len(names) > 1 THEN <<",", " ">> ELSE <<>>)
         \o str_items(Tail(names))

str_of_list(names) == <<"[">> \o str_items(names) \o <<"]">>

\* messages of dbt that are no column list
Texts == {<<"o", "k">>, <<"[", "a", "]">>}

\* the line formats of the dbt-core versions: before 1.0, from 1.0, from 1.4
Versions == {"message", "code", "info"}

LogLine(version, code, msg) ==
    CASE version = "message" -> [message |-> msg]
      [] version = "code" -> [code |-> code, msg |-> msg]
      [] version = "info" -> [info |-> [code |-> code, msg |-> msg]]

\* the line that logs the columns L, and the other lines
LogLines(version) ==
    {LogLine(version, M011,
             IF version = "code" THEN List(L) ELSE Str(str_of_list(L))) :
        L \in ColumnNameLists}
    \cup {LogLine(version, A001, Str(text)) : text \in Texts}

Outputs ==
    UNION {UNION {[1..n -> LogLines(version)] : n \in 0..MaxLines} :
              version \in Versions}

InitColumns ==
    /\ initial_files = <<>>
    /\ IdleFill
    /\ IdleCommand
    /\ IdleMacro
    /\ IdleDelete
    /\ IdleMigrate
    /\ IdleParse
    /\ IdleBuild
    /\ selection = <<Orders>>
    /\ files = [p \in Paths |-> Absent]
    /\ warehouse = [n \in {r.name : r \in Resources} |-> Raised]
    /\ last = NoCall

\* _utils.dbt_run_operation returns the lines of the standard output
DbtRunOperation(lines) ==
    /\ pc = "idle"
    /\ pc' = "dbt_run_operation"
    /\ result_lines' = lines
    /\ UNCHANGED <<initial_files, fillVars, commandVars, macroVars,
                   deleteVars, migrateVars, files, warehouse, selection,
                   last, threads, submitted, task, reported, successes,
                   failures, exception_message, tracebacks, summary,
                   returned_columns>>

ReturnColumns ==
    /\ pc = "dbt_run_operation"
    /\ pc' = "returned"
    /\ returned_columns' = _get_columns(result_lines)
    /\ UNCHANGED <<initial_files, fillVars, commandVars, macroVars,
                   deleteVars, migrateVars, files, warehouse, selection,
                   last, threads, submitted, task, reported, successes,
                   failures, exception_message, tracebacks, summary,
                   result_lines>>

NextColumns ==
    \/ /\ pc = "idle"
       /\ \E lines \in Outputs : DbtRunOperation(lines)
    \/ ReturnColumns

SpecColumns == InitColumns /\ [][NextColumns]_vars

----------------------------------------------------------------------------
(* update, delete, migrate: _initiate_alterations and the check of the      *)
(* resource type                                                            *)

\* str.lower() of a character
lower_char(c) ==
    CASE c = "A" -> "a" [] c = "D" -> "d" [] c = "E" -> "e"
      [] c = "L" -> "l" [] c = "M" -> "m" [] c = "O" -> "o"
      [] c = "S" -> "s" [] OTHER -> c

lower_chars(chars) == [i \in DOMAIN chars |-> lower_char(chars[i])]

supported_as_typed(resource_type) ==
    \/ resource_type = None
    \/ Concat(resource_type.chars) \in DOMAIN _SUPPORTED_RESOURCE_TYPES

\* the condition of the assert statement
supported(resource_type) ==
    \/ resource_type = None
    \/ Concat(lower_chars(resource_type.chars))
           \in DOMAIN _SUPPORTED_RESOURCE_TYPES

\* the resource types a user may ask for
ResourceTypeArguments ==
    {None}
    \cup {Str(chars) : chars \in
            {<<"m", "o", "d", "e", "l">>, <<"M", "o", "d", "e", "l">>,
             <<"M", "O", "D", "E", "L">>, <<"s", "e", "e", "d">>,
             <<"S", "e", "e", "d">>, <<"s", "n", "a", "p", "s", "h", "o", "t">>,
             <<"a", "n", "a", "l", "y", "s", "i", "s">>,
             <<"m", "o", "d", "e", "l", "s">>, <<"s", "o", "u", "r", "c", "e">>,
             <<"t", "e", "s", "t">>, <<>>}}

Commands == {"update", "delete", "migrate"}

InitCommand ==
    /\ initial_files = <<>>
    /\ IdleFill
    /\ IdleMacro
    /\ IdleDelete
    /\ IdleMigrate
    /\ IdleParse
    /\ IdleBuild
    /\ selection = <<>>
    /\ files = [p \in Paths |-> Absent]
    /\ warehouse = [n \in {r.name : r \in Resources} |-> Raised]
    /\ last = NoCall
    /\ command \in Commands
    /\ kwargs \in [resource_type : ResourceTypeArguments]
    /\ calls = <<>>

\* UNCHANGED of all but pc and calls
CommandFrame ==
    UNCHANGED <<initial_files, fillVars, parseVars, macroVars, deleteVars,
                migrateVars, files, warehouse, selection, last, threads,
                submitted, task, reported, successes, failures,
                exception_message, tracebacks, summary, command, kwargs>>

\* the task calls _initiate_alterations, which checks the resource type
\* first; the AssertionError leaves the task
AssertSupportedResourceType ==
    /\ pc = "idle"
    /\ pc' = IF supported(kwargs.resource_type)
                THEN "get_project_info" ELSE "AssertionError"
    /\ UNCHANGED calls
    /\ CommandFrame

\* _utils.get_project_info reads dbt_project.yml
GetProjectInfo ==
    /\ pc = "get_project_info"
    /\ pc' = "_transform_ls_results"
    /\ calls' = Append(calls, "read dbt_project.yml")
    /\ CommandFrame

\* _transform_ls_results runs dbt ls
TransformLsResults ==
    /\ pc = "_transform_ls_results"
    /\ pc' = command
    /\ calls' = Append(calls, "dbt ls")
    /\ CommandFrame

\* the task goes on with the resources found
Alter ==
    /\ pc = command
    /\ pc' = "altering"
    /\ calls' = Append(calls,
            CASE command = "update" -> "_create_all_property_files"
              [] command = "delete" -> "_delete_all_property_files"
              [] command = "migrate" -> "read manifest.json")
    /\ CommandFrame

NextCommand ==
    \/ AssertSupportedResourceType
    \/ GetProjectInfo
    \/ TransformLsResults
    \/ Alter

SpecCommand == InitCommand /\ [][NextCommand]_vars

----------------------------------------------------------------------------
(* fill, after section 4.4 of the specification: the descriptions of the    *)
(* source selection are collected, then applied to the undocumented columns *)
(* of the target selection                                                  *)

FillDescriptions == {"", "x", "y"}

ColumnsOf(doc, r) ==
    doc.sections[_SUPPORTED_RESOURCE_TYPES[r.resource_type]][1].columns

\* a document of r with the columns a and b, described or not
FillDocument(r, da, db) ==
    [_get_property_header(r.name, r.resource_type) EXCEPT
        !.sections[_SUPPORTED_RESOURCE_TYPES[r.resource_type]][1].columns =
            <<[name |-> "a", description |-> da, tests |-> <<>>],
              [name |-> "b", description |-> db, tests |-> <<>>]>>]

FillContents(r) ==
    {Absent}
    \cup {File("manual", FillDocument(r, da, db)) :
            da \in FillDescriptions, db \in FillDescriptions}

\* collect: description -> append(resource_name), the descriptions of a
\* column name in the order in which they were first met
recorded(options, description, resource_name) ==
    IF \E k \in DOMAIN options : options[k].description = description
    THEN [k \in DOMAIN options |->
            IF options[k].description = description
            THEN [options[k] EXCEPT !.resources = Append(@, resource_name)]
            ELSE options[k]]
    ELSE Append(options, [description |-> description,
                          resources |-> <<resource_name>>])

\* collect, over the columns of one resource from column j on
RECURSIVE collected(_, _, _, _)
collected(found, cols, j, resource_name) ==
    IF j > Len(cols) THEN found
    ELSE collected(IF cols[j].description # ""
                   THEN [found EXCEPT ![cols[j].name] =
                            recorded(@, cols[j].description, resource_name)]
                   ELSE found,
                   cols, j + 1, resource_name)

lacks_description_always(column) == TRUE

\* apply: only a column lacking a description is filled
lacks_description(column) == column.description = ""

unambiguous_nonempty(options) == Len(options) >= 1

\* apply: exactly one recorded description is applied automatically
unambiguous(options) == Len(options) = 1

\* what the user may type at the prompt of a conflict
Choices == {"1", "2", "3", "0", "s", "x", ""}

option_index(input) ==
    CASE input = "1" -> 1 [] input = "2" -> 2 [] input = "3" -> 3
      [] OTHER -> 0

\* the options are numbered from 1 in the order of their collection
valid_option(input, options) == option_index(input) \in DOMAIN options

\* the explicit skip
skip(input) == input = "s"

described(doc, r, j, description) ==
    [doc EXCEPT
        !.sections[_SUPPORTED_RESOURCE_TYPES[r.resource_type]][1]
            .columns[j].description = description]

FillEvent(r, column, event, description) ==
    [resource |-> r.name, column |-> column.name, event |-> event,
     description |-> description]

InitFill ==
    /\ IdleMacro
    /\ IdleDelete
    /\ IdleMigrate
    /\ IdleParse
    /\ IdleCommand
    /\ threads = 1
    /\ submitted = 0
    /\ task = <<>>
    /\ reported = <<>>
    /\ successes = 0
    /\ failures = 0
    /\ exception_message = {}
    /\ tracebacks = <<>>
    /\ summary = [written |-> FALSE]
    /\ warehouse = [n \in {r.name : r \in Resources} |-> Raised]
    /\ last = NoCall
    /\ source_selection = <<Orders, Customers>>
    /\ selection \in {<<Items>>, <<Customers, Items>>}
    /\ \E co \in FillContents(Orders), cc \in FillContents(Customers),
          ci \in FillContents(Items) :
            files = [p \in Paths |->
                        IF p = property_path(Orders.location) THEN co
                        ELSE IF p = property_path(Customers.location) THEN cc
                        ELSE ci]
    /\ initial_files = files
    /\ pc = "collect"
    /\ descriptions = [n \in DocColNames |-> <<>>]
    /\ target_dict = NullDoc
    /\ cursor = [resource |-> 1, column |-> 0]
    /\ choice = NoAnswer
    /\ tally = [described |-> 0, not_described |-> <<>>]
    /\ fill_log = <<>>

\* UNCHANGED of what fill does not use
FillFrame ==
    UNCHANGED <<initial_files, parseVars, commandVars, macroVars, deleteVars,
                migrateVars, warehouse, selection, last, threads, submitted,
                task, reported, successes, failures, exception_message,
                tracebacks, summary, source_selection>>

\* collect, for the next resource of the source selection
FillCollect ==
    /\ pc = "collect"
    /\ LET r == source_selection[cursor.resource]
           content == files[property_path(r.location)]
       IN  descriptions' =
              IF content.exists
              THEN collected(descriptions, ColumnsOf(parse_yaml(content), r),
                             1, r.name)
              ELSE descriptions
    /\ IF cursor.resource = Len(source_selection)
       THEN pc' = "apply" /\ cursor' = [resource |-> 1, column |-> 0]
       ELSE pc' = pc /\ cursor' = [cursor EXCEPT !.resource = @ + 1]
    /\ UNCHANGED <<files, target_dict, choice, tally, fill_log>>
    /\ FillFrame

\* apply, the next resource of the target selection: one without a document
\* is passed over
FillLoad ==
    /\ pc = "apply"
    /\ target_dict = NullDoc
    /\ cursor.resource <= Len(selection)
    /\ LET content == files[property_path(selection[cursor.resource].location)]
       IN  IF content.exists
           THEN /\ target_dict' = parse_yaml(content)
                /\ cursor' = [cursor EXCEPT !.column = 1]
           ELSE /\ target_dict' = target_dict
                /\ cursor' = [cursor EXCEPT !.resource = @ + 1]
    /\ UNCHANGED <<files, pc, descriptions, choice, tally, fill_log>>
    /\ FillFrame

\* apply, the next column of the target
FillColumn ==
    /\ pc = "apply"
    /\ target_dict # NullDoc
    /\ cursor.column <= Len(ColumnsOf(target_dict, selection[cursor.resource]))
    /\ LET r == selection[cursor.resource]
           column == ColumnsOf(target_dict, r)[cursor.column]
           options == descriptions[column.name]
       IN  IF ~lacks_description(column)
           THEN /\ cursor' = [cursor EXCEPT !.column = @ + 1]
                /\ UNCHANGED <<pc, target_dict, choice, tally, fill_log>>
           ELSE IF unambiguous(options)
           THEN /\ target_dict' = described(target_dict, r, cursor.column,
                                            options[1].description)
                /\ tally' = [tally EXCEPT !.described = @ + 1]
                /\ fill_log' = Append(fill_log,
                        FillEvent(r, column, "applied",
                                  options[1].description))
                /\ cursor' = [cursor EXCEPT !.column = @ + 1]
                /\ UNCHANGED <<pc, choice>>
           ELSE IF Len(options) = 0
           THEN /\ tally' = [tally EXCEPT !.not_described =
                                Append(@, <<r.name, column.name>>)]
                /\ cursor' = [cursor EXCEPT !.column = @ + 1]
                /\ UNCHANGED <<pc, target_dict, choice, fill_log>>
           ELSE /\ pc' = "prompt"
                /\ choice' = NoAnswer
                /\ fill_log' = Append(fill_log,
                                      FillEvent(r, column, "prompt", ""))
                /\ UNCHANGED <<target_dict, cursor, tally>>
    /\ UNCHANGED <<files, descriptions>>
    /\ FillFrame

\* the answer to the prompt: an option index, the skip, or anything else,
\* which prompts again
FillAnswer(input) ==
    /\ pc = "prompt"
    /\ choice' = input
    /\ LET r == selection[cursor.resource]
           column == ColumnsOf(target_dict, r)[cursor.column]
           options == descriptions[column.name]
       IN  IF valid_option(input, options)
           THEN /\ target_dict' =
                        described(target_dict, r, cursor.column,
                                  options[option_index(input)].description)
                /\ tally' = [tally EXCEPT !.described = @ + 1]
                /\ fill_log' = Append(fill_log,
                        FillEvent(r, column, "chosen",
                                  options[option_index(input)].description))
                /\ cursor' = [cursor EXCEPT !.column = @ + 1]
                /\ pc' = "apply"
           ELSE IF skip(input)
           THEN /\ tally' = [tally EXCEPT !.not_described =
                                Append(@, <<r.name, column.name>>)]
                /\ fill_log' = Append(fill_log,
                                      FillEvent(r, column, "skipped", ""))
                /\ cursor' = [cursor EXCEPT !.column = @ + 1]
                /\ pc' = "apply"
                /\ UNCHANGED target_dict
           ELSE UNCHANGED <<pc, target_dict, cursor, tally, fill_log>>
    /\ UNCHANGED <<files, descriptions>>
    /\ FillFrame

\* the document is persisted after all columns of the resource
FillPersist ==
    /\ pc = "apply"
    /\ target_dict # NullDoc
    /\ cursor.column > Len(ColumnsOf(target_dict, selection[cursor.resource]))
    /\ files' = [files EXCEPT
                    ![property_path(selection[cursor.resource].location)] =
                        write_yaml(target_dict)]
    /\ target_dict' = NullDoc
    /\ cursor' = [resource |-> cursor.resource + 1, column |-> 0]
    /\ UNCHANGED <<pc, descriptions, choice, tally, fill_log>>
    /\ FillFrame

\* the counts are reported
FillDone ==
    /\ pc = "apply"
    /\ target_dict = NullDoc
    /\ cursor.resource > Len(selection)
    /\ pc' = "done"
    /\ UNCHANGED <<files, descriptions, target_dict, cursor, choice, tally,
                   fill_log>>
    /\ FillFrame

NextFill ==
    \/ FillCollect
    \/ FillLoad
    \/ FillColumn
    \/ \E input \in Choices : FillAnswer(input)
    \/ FillPersist
    \/ FillDone

SpecFill == InitFill /\ [][NextFill]_vars

----------------------------------------------------------------------------
(* migrate, lines 420-429 alone: the marked records leave the parsed        *)
(* property file, whatever was marked                                       *)

\* the most records of a section
MaxSection == 3

ModelNames == <<"orders", "customers", "payments", "refunds">>

SeedNames == <<"items", "countries">>

\* a property file with up to MaxSection models and up to two seeds
LegacyDocuments ==
    {[version |-> 2,
      sections |->
        [plural \in (IF m > 0 THEN {"models"} ELSE {})
                        \cup (IF s > 0 THEN {"seeds"} ELSE {}) |->
            IF plural = "models"
            THEN [i \in 1..m |-> ResourceProperties(ModelNames[i])]
            ELSE [i \in 1..s |-> ResourceProperties(SeedNames[i])]]] :
        m \in 0..MaxSection, s \in 0..2}

\* the records of a document that the loop over the group may have marked:
\* any of them, each once, in any order
Marks(doc) ==
    LET all == UNION {{[resource_type_plural |-> k, index |-> i] :
                          i \in DOMAIN doc.sections[k]} :
                      k \in DOMAIN doc.sections}
    IN  {indices \in UNION {[1..n -> all] : n \in 0..Cardinality(all)} :
            \A i, j \in DOMAIN indices : indices[i] = indices[j] => i = j}

InitRemove ==
    /\ initial_files = <<>>
    /\ IdleFill
    /\ IdleCommand
    /\ IdleParse
    /\ IdleMacro
    /\ IdleDelete
    /\ IdleMigrate
    /\ threads = 1
    /\ submitted = 0
    /\ task = <<>>
    /\ reported = <<>>
    /\ successes = 0
    /\ failures = 0
    /\ exception_message = {}
    /\ tracebacks = <<>>
    /\ summary = [written |-> FALSE]
    /\ selection = <<>>
    /\ warehouse = [n \in {r.name : r \in Resources} |-> Raised]
    /\ last = NoCall
    /\ pc = "parse_yaml"
    /\ \E doc \in LegacyDocuments :
          files = [p \in SourcePaths |->
                      IF p = SchemaPath THEN File("manual", doc) ELSE Absent]

\* lines 372-419: the file is parsed and the loop over the group has marked
\* the records whose target was written
MarkIndices(indices) ==
    /\ pc = "parse_yaml"
    /\ pc' = "marked"
    /\ existing_property_file_dict' = parse_yaml(files[SchemaPath])
    /\ indices_to_remove' = indices
    /\ UNCHANGED <<initial_files, fillVars, commandVars, parseVars, macroVars,
                   deleteVars, files, warehouse, selection, last, threads,
                   submitted, task, reported, successes, failures,
                   exception_message, tracebacks, summary, manifest,
                   migration_map, group, item, migration_log>>

\* lines 420-429
RemoveMarked ==
    /\ pc = "marked"
    /\ pc' = "removed"
    /\ existing_property_file_dict' =
          remaining(existing_property_file_dict, indices_to_remove)
    /\ UNCHANGED <<initial_files, fillVars, commandVars, parseVars, macroVars,
                   deleteVars, files, warehouse, selection, last, threads,
                   submitted, task, reported, successes, failures,
                   exception_message, tracebacks, summary, manifest,
                   migration_map, group, item, indices_to_remove,
                   migration_log>>

NextRemove ==
    \/ /\ pc = "parse_yaml"
       /\ \E indices \in Marks(parse_yaml(files[SchemaPath])) :
             MarkIndices(indices)
    \/ RemoveMarked

SpecRemove == InitRemove /\ [][NextRemove]_vars

----------------------------------------------------------------------------
(* migrate over a property file that documents models and analyses, among   *)
(* them a model and an analysis of one name                                 *)

OrdersAnalysis == Resource("orders", "analysis", "analyses", "sql")

ReportAnalysis == Resource("report", "analysis", "analyses", "sql")

SameNameCatalog == <<Orders, Customers, OrdersAnalysis, ReportAnalysis>>

\* the record of r in the property file; its description tells it from the
\* record of a resource of the same name and another type
TypedRecord(r) ==
    [ResourceProperties(r.name) EXCEPT !.description = r.resource_type]

\* the sections of the property file that documents the resources of D
TypedSections(D) ==
    LET records(plural) ==
            LET rs == SelectSeq(SameNameCatalog,
                        LAMBDA r :
                            /\ r \in D
                            /\ _SUPPORTED_RESOURCE_TYPES[r.resource_type]
                                  = plural)
            IN  [i \in DOMAIN rs |-> TypedRecord(rs[i])]
    IN  [plural \in {q \in {"models", "analyses"} : records(q) # <<>>} |->
            records(plural)]

InitSameName ==
    /\ selection \in
          {sel \in UNION {[1..n -> {SameNameCatalog[i] : i \in 1..4}] :
                              n \in 0..2} :
              \A i, j \in DOMAIN sel : sel[i] = sel[j] => i = j}
    /\ \E D \in SUBSET {SameNameCatalog[i] : i \in 1..4} :
          /\ manifest =
                [i \in 1..4 |->
                    [resource |-> SameNameCatalog[i],
                     patch_path |-> IF SameNameCatalog[i] \in D
                                    THEN SchemaPath ELSE NoPatch]]
          /\ files =
                [p \in SourcePaths |->
                    IF p = SchemaPath /\ D # {}
                    THEN File("manual",
                              [version |-> 2, sections |-> TypedSections(D)])
                    ELSE Absent]
    /\ initial_files = files
    /\ IdleFill
    /\ IdleCommand
    /\ IdleParse
    /\ IdleMacro
    /\ IdleDelete
    /\ warehouse = [n \in {r.name : r \in Resources} |-> Raised]
    /\ last = NoCall
    /\ threads = 1
    /\ pc = "migrate"
    /\ submitted = 0
    /\ task = <<>>
    /\ reported = <<>>
    /\ successes = 0
    /\ failures = 0
    /\ exception_message = {}
    /\ tracebacks = <<>>
    /\ summary = [written |-> FALSE]
    /\ migration_map = <<>>
    /\ group = 0
    /\ item = 0
    /\ existing_property_file_dict = NullDoc
    /\ indices_to_remove = <<>>
    /\ migration_log = <<>>

SpecSameName == InitSameName /\ [][NextMigrate]_vars

----------------------------------------------------------------------------
(* Reconciliation: the call recorded in last, its file before and after *)

Called == last.op = "update"

Reconciled == Called /\ ~last.raised

Pre == last.before

Post == files[property_path(last.res.location)]

Plural ==
    CASE last.res.resource_type = "model" -> "models"
      [] last.res.resource_type = "seed" -> "seeds"
      [] last.res.resource_type = "snapshot" -> "snapshots"
      [] last.res.resource_type = "analysis" -> "analyses"

Introspected == last.out.columns

HadDocument == Pre.exists /\ Pre.data # NullDoc

Names(columns) == [i \in DOMAIN columns |-> columns[i].name]

Range(f) == {f[i] : i \in DOMAIN f}

\* C1: after a reconciliation of a resource with the introspected list L,
\* the columns of the resource's record (the record of the resource's name
\* in the section of its type) have exactly the names of L, in L's order.
C1_ColumnsAreIntrospected ==
    Reconciled =>
        \A i \in DOMAIN Post.data.sections[Plural] :
            Post.data.sections[Plural][i].name = last.res.name =>
                Names(Post.data.sections[Plural][i].columns) = Introspected

\* C2: every column record of the document before the update whose name is
\* still introspected is in the same resource record after the update,
\* equal to what it was: description and extra fields (tests) included.
C2_ColumnsPreserved ==
    Reconciled /\ HadDocument =>
        \A s \in DOMAIN Pre.data.sections :
            \A i \in DOMAIN Pre.data.sections[s] :
                \A j \in DOMAIN Pre.data.sections[s][i].columns :
                    LET c == Pre.data.sections[s][i].columns[j]
                    IN  c.name \in Range(Introspected) =>
                          /\ s \in DOMAIN Post.data.sections
                          /\ i \in DOMAIN Post.data.sections[s]
                          /\ c \in Range(Post.data.sections[s][i].columns)

C2_Witness ==
    /\ Reconciled /\ HadDocument
    /\ Plural \in DOMAIN Pre.data.sections
    /\ Len(Pre.data.sections[Plural]) = 1
    /\ Len(Pre.data.sections[Plural][1].columns) = 2
    /\ Pre.data.sections[Plural][1].columns[1].tests = <<"not_null">>
    /\ Pre.data.sections[Plural][1].columns[1].description = "x"
    /\ Introspected = <<Pre.data.sections[Plural][1].columns[1].name>>
    /\ Post.data.sections[Plural][1].columns =
            <<Pre.data.sections[Plural][1].columns[1]>>

\* C3: a reconciliation with an existing non-empty document changes no
\* resource-level field other than columns (description, tags, name), nor
\* the version, nor the number of records, nor any other section.
C3_ResourceLevelUntouched ==
    Reconciled /\ HadDocument =>
        /\ Post.data.version = Pre.data.version
        /\ DOMAIN Post.data.sections = DOMAIN Pre.data.sections
        /\ \A s \in DOMAIN Pre.data.sections :
              /\ Len(Post.data.sections[s]) = Len(Pre.data.sections[s])
              /\ s # Plural => Post.data.sections[s] = Pre.data.sections[s]
              /\ \A i \in DOMAIN Pre.data.sections[s] :
                    [Post.data.sections[s][i] EXCEPT !.columns = <<>>] =
                        [Pre.data.sections[s][i] EXCEPT !.columns = <<>>]

C3_Witness ==
    /\ Reconciled /\ HadDocument
    /\ DOMAIN Pre.data.sections = {"models", "seeds"}
    /\ Pre.data.sections[Plural][1].description = "d"
    /\ Pre.data.sections[Plural][1].tags = <<"pii">>
    /\ Post.data.sections[Plural][1].description = "d"
    /\ Post.data.sections[Plural][1].columns #
            Pre.data.sections[Plural][1].columns

\* C4: an update of a resource right after a successful update of the same
\* resource with the same introspected list, with no hand edit in between,
\* succeeds and leaves the file as it was, text included.
C4_Idempotent ==
    Called /\ last.rerun => ~last.raised /\ Post = Pre

C4_Witness ==
    /\ Called /\ last.rerun /\ ~last.raised
    /\ Len(Introspected) = 2
    /\ Post.exists /\ Post.style = "dumped"
    /\ Post.data.sections[Plural][1].description = "d"

\* C5: with no file, or a file that parses to nothing, a call whose
\* introspection succeeds does not raise and writes exactly version 2 and
\* the one section of the resource's plural type with the one record
\* {name, description "", columns}, a column {name, description ""} per
\* introspected name, in order.
C5_FreshDocument ==
    Called /\ ~last.out.raised /\ ~HadDocument =>
        /\ ~last.raised
        /\ Post.exists
        /\ Post.data =
             [version |-> 2,
              sections |->
                (Plural :>
                    <<[name |-> last.res.name, description |-> "",
                       tags |-> <<>>,
                       columns |->
                         [i \in DOMAIN Introspected |->
                            [name |-> Introspected[i], description |-> "",
                             tests |-> <<>>]]]>>)]

C5_Witness ==
    /\ Reconciled
    /\ Pre.exists /\ Pre.data = NullDoc
    /\ last.res.resource_type = "seed"
    /\ Introspected = <<"b", "a">>
    /\ Names(Post.data.sections["seeds"][1].columns) = <<"b", "a">>

\* C6: when the section of the resource's type holds more than one record,
\* the reconciliation changes no record but the one of the resource's name.
C6_OnlyOwnRecordChanged ==
    Reconciled /\ HadDocument /\ Len(Pre.data.sections[Plural]) > 1 =>
        \A s \in DOMAIN Pre.data.sections :
            \A i \in DOMAIN Pre.data.sections[s] :
                ~(s = Plural /\ Pre.data.sections[s][i].name = last.res.name)
                    => /\ s \in DOMAIN Post.data.sections
                       /\ i \in DOMAIN Post.data.sections[s]
                       /\ Post.data.sections[s][i] = Pre.data.sections[s][i]

----------------------------------------------------------------------------
(* The build coordinator *)

\* C7: at no time are more than threads builds (from the [START] of
\* _create_property_file to its return) in progress.
C7_AtMostThreadsInProgress ==
    Cardinality({i \in DOMAIN task :
                    task[i].state \in {"running", "structured"}}) <= threads

C7_Witness ==
    /\ threads = 2
    /\ Cardinality(InProgress) = 2
    /\ \E i \in Futures : task[i].state = "queued"

\* C8: whatever the other builds do, every submitted build is started and
\* ends as its own inputs decide (raised when its introspection raises or
\* its property file has no section of its type, written otherwise), and
\* the coordinator returns normally.
C8_BuildsIndependent ==
    /\ [](pc = "done" =>
            \A i \in Futures :
                LET r == selection[i]
                IN  \/ /\ task[i].state = "raised"
                       /\ \/ warehouse[r.name].raised
                          \/ files[PathOf(i)] = ForeignDocument(r)
                    \/ /\ task[i].state = "ok"
                       /\ ~warehouse[r.name].raised
                       /\ files[PathOf(i)].exists
                       /\ files[PathOf(i)].style = "dumped")
    /\ \A i \in 1..Len(Catalog) :
          (i \in Futures /\ task[i].state = "queued")
              ~> (i \in Futures /\ Finished(i))
    /\ <>(pc = "done")

C8_Witness ==
    /\ pc = "done"
    /\ threads = 1
    /\ N = 3
    /\ task[1].state = "raised"
    /\ task[2].state = "ok"
    /\ task[3].state = "raised"

\* C9: once the summary is written every task has finished, every
\* resource has been logged exactly once, as SUCCESS or as FAILURE
\* according to its outcome, the total is the number of selected
\* resources and the failures are the builds that raised.
C9_SummaryAfterAll ==
    summary.written =>
        /\ \A i \in Futures : task[i].state \in {"ok", "raised"}
        /\ Len(reported) = N
        /\ \A i \in Futures :
              \E k \in DOMAIN reported :
                /\ reported[k].index = i
                /\ reported[k].log =
                      IF task[i].state = "raised" THEN "FAILURE" ELSE "SUCCESS"
        /\ summary.total = N
        /\ summary.successes + summary.failures = N
        /\ summary.failures =
              Cardinality({i \in Futures : task[i].state = "raised"})

C9_Witness ==
    /\ summary.written
    /\ N = 3
    /\ summary.failures = 2
    /\ summary.successes = 1

\* C10: the traceback record is written only after every task has
\* finished, and when a build failed it lists exactly the failed
\* resources, in submission order.
C10_TracebacksInSubmissionOrder ==
    /\ tracebacks # <<>> =>
            \A i \in Futures : task[i].state \in {"ok", "raised"}
    /\ pc \in {"summary", "done"} =>
          /\ {tracebacks[k] : k \in DOMAIN tracebacks} =
                {i \in Futures : task[i].state = "raised"}
          /\ \A k, l \in DOMAIN tracebacks :
                k < l => tracebacks[k] < tracebacks[l]

C10_Witness ==
    /\ pc = "done"
    /\ tracebacks = <<1, 3>>
    /\ \E k, l \in DOMAIN reported :
          /\ k < l
          /\ reported[k].index = 3
          /\ reported[l].index = 1

\* the project directory after the work items have run one after the
\* other, in submission order, which is the run with threads = 1
RECURSIVE sequential_files(_)
sequential_files(k) ==
    IF k = 0
    THEN initial_files
    ELSE LET f == sequential_files(k - 1)
             r == selection[k]
             c == created_property_file(f[PathOf(k)], r, warehouse[r.name])
         IN  [f EXCEPT ![PathOf(k)] = c.content]

\* C11: when the run is done the documents are those that the run with
\* threads = 1 leaves, whatever the number of threads and the interleaving
\* of the workers.
C11_SameDocumentsForAnyThreads ==
    pc = "done" => files = sequential_files(N)

\* C12: no two work items of distinct selected resource locations have
\* written the same property path.
C12_NoDocumentWrittenTwice ==
    \A i, j \in Futures :
        (/\ i # j
         /\ selection[i].location # selection[j].location
         /\ task[i].state = "ok"
         /\ task[j].state = "ok")
            => PathOf(i) # PathOf(j)

\* C13: macro_exists is called at most once, and exactly once before any
\* work item is submitted; when a work item has been submitted the check
\* and the install flow are over and the macro is no longer missing; after
\* the answer n the run has exited and no work item was submitted.
C13_MacroCheckedOnceBeforeBuilds ==
    /\ macro_checks <= 1
    /\ (submitted > 0 \/ \E i \in Futures : task[i].state # "new")
          => /\ macro_checks = 1
             /\ pc \notin {"macro_exists", "add_macro", "alternate_prompt",
                           "exited"}
             /\ project_macro # "missing"
    /\ lower(add_confirmation) = "n"
          => /\ pc = "exited"
             /\ submitted = 0
             /\ \A i \in Futures : task[i].state = "new"
    /\ pc = "exited" => lower(add_confirmation) = "n"

\* the macro was missing, the user asked for another location and gave
\* one, and then both resources were built
C13_Witness ==
    /\ pc = "done"
    /\ N = 2
    /\ macro_checks = 1
    /\ lower(add_confirmation) = "a"
    /\ macro_location \in AlternateLocations
    /\ \A i \in Futures : task[i].state = "ok"

\* the property paths of the selected resources
SelectedPropertyPaths ==
    {property_path(selection[i].location) : i \in DOMAIN selection}

----------------------------------------------------------------------------
(* migrate: the project directory before (initial_files) and after *)

\* where the records of the project directory f are: path, section, index
Places(f) ==
    UNION {UNION {{[path |-> p, section |-> q, index |-> i] :
                      i \in DOMAIN f[p].data.sections[q]} :
                  q \in DOMAIN f[p].data.sections} :
           p \in {x \in DOMAIN f : f[x].exists}}

RecordAt(f, place) == f[place.path].data.sections[place.section][place.index]

Records(f) == {RecordAt(f, place) : place \in Places(f)}

\* how often the record rec is in the project directory f
Count(f, rec) == Cardinality({place \in Places(f) : RecordAt(f, place) = rec})

\* the log of migrate has the event for the resource of that name
Logged(event, name) ==
    \E j \in DOMAIN migration_log :
        migration_log[j] = [event |-> event, name |-> name]

\* the resources of group g that migrate has to move
ToMove(g) ==
    {g.resource_list[j] : j \in {l \in DOMAIN g.resource_list :
        g.resource_list[l].property_path # g.existing_property_path}}

Groups == {migration_map[j] : j \in DOMAIN migration_map}

\* the file at path p holds a record of that name in that section
Holds(f, p, plural, name) ==
    /\ f[p].exists
    /\ plural \in DOMAIN f[p].data.sections
    /\ \E i \in DOMAIN f[p].data.sections[plural] :
          f[p].data.sections[plural][i].name = name

\* C15: after migrate every record is in the project directory as often as
\* it was before migrate, whichever target writes failed.
C15_RecordsConserved ==
    pc = "migrated" =>
        \A rec \in Records(initial_files) \cup Records(files) :
            Count(files, rec) = Count(initial_files, rec)

\* migrate went through a shared file with the records of two selected
\* models and one seed, and tried to move each
C15_Witness ==
    /\ pc = "migrated"
    /\ Len(migration_map) = 1
    /\ Len(migration_map[1].resource_list) = 3
    /\ Cardinality(ToMove(migration_map[1])) = 3
    /\ \A e \in ToMove(migration_map[1]) : Logged("Moving", e.name)
    /\ Cardinality(Places(files)) >= 3

\* the names of the resources whose own property file migrate has created
Moved == {migration_log[j].name :
            j \in {l \in DOMAIN migration_log :
                      migration_log[l].event = "Created"}}

\* what is left of the document before when the records of the names in
\* moved are taken out and the sections emptied by it are dropped
Left(before, moved) ==
    LET kept(q) == SelectSeq(before.sections[q],
                             LAMBDA rec : rec.name \notin moved)
    IN  [before EXCEPT !.sections =
            [q \in {x \in DOMAIN before.sections :
                       \/ kept(x) # <<>>
                       \/ kept(x) = before.sections[x]}
                |-> kept(q)]]

\* C16: after migrate a property file that was the source of a group is
\* gone exactly when nothing but the version is left of it; else it exists
\* and holds the records that were not moved, without the sections that
\* were emptied.
C16_SourceRewrittenOrDeleted ==
    pc = "migrated" =>
        \A g \in Groups :
            LET p == g.existing_property_path
                left == Left(initial_files[p].data,
                             Moved \cap {e.name : e \in ToMove(g)})
            IN  IF DOMAIN left.sections = {}
                THEN ~files[p].exists
                ELSE /\ files[p].exists
                     /\ files[p].data = left

\* the shared file of two models was the source of a group: it has been
\* written again and holds both records, neither of which was moved
C16_Witness ==
    /\ pc = "migrated"
    /\ Len(migration_map) = 1
    /\ migration_map[1].existing_property_path = SchemaPath
    /\ Cardinality(ToMove(migration_map[1])) = 2
    /\ initial_files[SchemaPath].style = "manual"
    /\ files[SchemaPath].style = "dumped"
    /\ files[SchemaPath].data = initial_files[SchemaPath].data
    /\ Holds(files, SchemaPath, "models", "orders")
    /\ Holds(files, SchemaPath, "models", "customers")

\* C17: after migrate, for a resource to move whose target path held a
\* file before: the file holds what it held (and is the very file when it
\* was not itself the source of a group), the resource is logged as failed
\* and not as created, and its record is still in the source file.
C17_ExistingTargetKept ==
    pc = "migrated" =>
        \A g \in Groups : \A e \in ToMove(g) :
            initial_files[e.property_path].exists
                => /\ files[e.property_path].exists
                   /\ parse_yaml(files[e.property_path])
                        = parse_yaml(initial_files[e.property_path])
                   /\ (\A h \in Groups :
                          h.existing_property_path # e.property_path)
                        => files[e.property_path]
                              = initial_files[e.property_path]
                   /\ Logged("Failed to create", e.name)
                   /\ ~Logged("Created", e.name)
                   /\ Holds(files, g.existing_property_path,
                            e.resource_type_plural, e.name)

\* orders is documented in the shared file and models/orders.yml, which
\* documents something else, was there: it is as it was
C17_Witness ==
    /\ pc = "migrated"
    /\ \E g \in Groups :
          /\ g.existing_property_path = SchemaPath
          /\ MigrationEntry(Orders) \in ToMove(g)
    /\ initial_files[property_path(Orders.location)] = ForeignDocument(Orders)
    /\ files[property_path(Orders.location)] = ForeignDocument(Orders)
    /\ Logged("Failed to create", "orders")
    /\ Holds(files, SchemaPath, "models", "orders")

\* C18: after migrate, in a group where the write for a resource failed,
\* every resource to move was tried and is logged once as created or as
\* failed; the record of a created one is out of the source file and the
\* record of a failed one is still in it.
C18_FailureDoesNotStopGroup ==
    pc = "migrated" =>
        \A g \in Groups :
            (\E e \in ToMove(g) : Logged("Failed to create", e.name))
                => \A e \in ToMove(g) :
                      /\ Logged("Moving", e.name)
                      /\ Logged("Created", e.name)
                            # Logged("Failed to create", e.name)
                      /\ Logged("Created", e.name)
                            => ~Holds(files, g.existing_property_path,
                                      e.resource_type_plural, e.name)
                      /\ Logged("Failed to create", e.name)
                            => Holds(files, g.existing_property_path,
                                     e.resource_type_plural, e.name)

\* the write for orders, the first of the shared file, failed, and
\* customers and items were tried after it
C18_Witness ==
    /\ pc = "migrated"
    /\ Len(migration_map) = 1
    /\ migration_map[1].existing_property_path = SchemaPath
    /\ Len(migration_log) = 6
    /\ migration_log[2] = [event |-> "Failed to create", name |-> "orders"]
    /\ migration_log[3] = [event |-> "Moving", name |-> "customers"]
    /\ migration_log[5] = [event |-> "Moving", name |-> "items"]
    /\ Holds(files, SchemaPath, "models", "orders")

\* the number of records of a document
Size(doc) ==
    Cardinality(UNION {{<<q, i>> : i \in DOMAIN doc.sections[q]} :
                          q \in DOMAIN doc.sections})

\* C19: after migrate every resource to move out of a file of more than
\* one record, whose target path held no file, has its own property file:
\* the version and one section, of its type, with one record, the record
\* the source file had for it.
C19_EachResourceGetsItsDocument ==
    pc = "migrated" =>
        \A g \in Groups : \A e \in ToMove(g) :
            (/\ Size(initial_files[g.existing_property_path].data) > 1
             /\ ~initial_files[e.property_path].exists)
                => /\ files[e.property_path].exists
                   /\ \E rec \in Records(initial_files) :
                         /\ rec.name = e.name
                         /\ parse_yaml(files[e.property_path])
                              = [version |-> 2,
                                 sections |->
                                    (e.resource_type_plural :> <<rec>>)]

\* C20: after migrate, a resource that is not selected or has no
\* patch_path is in no log record of migrate, its own property path holds
\* what it held, and its record is still in the file that documents it; a
\* selected resource documented at its own property path is in no log
\* record, its record is still there and in no other file.
C20_OnlySelectedDocumentedResources ==
    pc = "migrated" =>
        \A n \in DOMAIN manifest :
            LET r == manifest[n].resource
                patch == manifest[n].patch_path
                t == property_path(r.location)
                plural == _SUPPORTED_RESOURCE_TYPES[r.resource_type]
                untouched ==
                    \A event \in {"Moving", "Created", "Failed to create"} :
                        ~Logged(event, r.name)
                chosen == \E i \in DOMAIN selection : selection[i] = r
            IN  /\ (~chosen \/ patch = NoPatch)
                      => /\ untouched
                         /\ files[t].exists = initial_files[t].exists
                         /\ files[t].exists
                               => parse_yaml(files[t])
                                    = parse_yaml(initial_files[t])
                         /\ patch # NoPatch
                               => Holds(files, patch, plural, r.name)
                /\ (chosen /\ patch = t)
                      => /\ untouched
                         /\ Holds(files, t, plural, r.name)
                         /\ \A p \in DOMAIN files :
                               p # t => ~Holds(files, p, plural, r.name)

\* customers was selected and tried; orders, in the same shared file, was
\* not selected; items, selected, was already in data/items.yml
C20_Witness ==
    /\ pc = "migrated"
    /\ selection = <<Customers, Items>>
    /\ manifest[1].patch_path = SchemaPath
    /\ manifest[2].patch_path = SchemaPath
    /\ manifest[3].patch_path = property_path(Items.location)
    /\ Logged("Moving", "customers")
    /\ ~Logged("Moving", "orders")
    /\ ~Logged("Moving", "items")
    /\ Holds(files, SchemaPath, "models", "orders")
    /\ ~files[property_path(Orders.location)].exists
    /\ Holds(files, property_path(Items.location), "seeds", "items")

----------------------------------------------------------------------------
(* _get_columns: the claims about the parsing of the log lines *)

\* the line carries the code M011, at top level or under 'info'
HasM011(x) ==
    \/ "code" \in DOMAIN x /\ x.code = M011
    \/ "info" \in DOMAIN x /\ "code" \in DOMAIN x.info /\ x.info.code = M011

\* the line's message is the list L, as a native list or as its string
Denotes(x, field, L) ==
    LET holder == IF field \in DOMAIN x THEN x ELSE x.info IN
    \/ holder[field] = List(L)
    \/ holder[field] = Str(str_of_list(L))

LastM011 ==
    CHOOSE i \in DOMAIN result_lines :
        /\ HasM011(result_lines[i])
        /\ \A j \in DOMAIN result_lines : HasM011(result_lines[j]) => j <= i

\* C21: when the output holds records with code M011, _get_columns returns
\* the column list of the last of them, whatever comes before or after it:
\* the list a bracketed string denotes, a native list as it is.
C21_LastM011RecordDecides ==
    (pc = "returned" /\ \E i \in DOMAIN result_lines :
                            HasM011(result_lines[i]))
        => \A L \in ColumnNameLists :
              Denotes(result_lines[LastM011], "msg", L)
                  => returned_columns = List(L)

\* two M011 records with different lists and another record after them; the
\* list of the second was a bracketed string
C21_Witness ==
    /\ pc = "returned"
    /\ Len(result_lines) = 3
    /\ HasM011(result_lines[1])
    /\ HasM011(result_lines[2])
    /\ ~HasM011(result_lines[3])
    /\ result_lines[2].info.msg = Str(str_of_list(<<"b", "a">>))
    /\ result_lines[1].info.msg = Str(str_of_list(<<"a">>))
    /\ returned_columns = List(<<"b", "a">>)

\* line i yields a column list under one of the two branches: an M011
\* record with a list as its message, or a line after the first whose
\* 'message' is the string of a list
YieldsColumnList(i) ==
    LET x == result_lines[i] IN
    \E L \in ColumnNameLists :
        \/ HasM011(x) /\ Denotes(x, "msg", L)
        \/ i >= 2 /\ "message" \in DOMAIN x /\ Denotes(x, "message", L)

\* C22: when no line of the output yields a column list under either branch,
\* _get_columns signals a ParseError; it never returns a value that is not
\* a list of column names.
C22_NoColumnListSignalsParseError ==
    pc = "returned"
        => /\ returned_columns.kind \in {"list", "raised"}
           /\ (\A i \in DOMAIN result_lines : ~YieldsColumnList(i))
                  => returned_columns = Raises("ParseError")

NoM011 == \A i \in DOMAIN result_lines : ~HasM011(result_lines[i])

\* C28: when the output holds no M011 record, _get_columns ignores the first
\* line and returns the list decoded from the 'message' of the last of the
\* other lines; with an M011 record the fallback is not taken, so that a
\* record on the first line is read.
C28_FallbackReadsLastRemainingLine ==
    pc = "returned"
        => /\ (NoM011 /\ Len(result_lines) >= 2)
                  => \A L \in ColumnNameLists :
                        ("message" \in DOMAIN result_lines[Len(result_lines)]
                            /\ Denotes(result_lines[Len(result_lines)],
                                       "message", L))
                            => returned_columns = List(L)
           /\ (NoM011 /\ Len(result_lines) <= 1)
                  => returned_columns.kind # "list"
           /\ (Len(result_lines) = 1 /\ HasM011(result_lines[1]))
                  => returned_columns.kind = "list"

\* three lines of the oldest format, each with the string of another list
C28_Witness ==
    /\ pc = "returned"
    /\ Len(result_lines) = 3
    /\ result_lines[1] = [message |-> Str(str_of_list(<<"a">>))]
    /\ result_lines[2] = [message |-> Str(str_of_list(<<"b">>))]
    /\ result_lines[3] = [message |-> Str(str_of_list(<<"a", "b">>))]
    /\ returned_columns = List(<<"a", "b">>)

----------------------------------------------------------------------------
(* The check of the resource type *)

\* the supported resource types in the spellings that a user may type
SupportedSpellings ==
    {Str(chars) : chars \in
        {<<"m", "o", "d", "e", "l">>, <<"M", "o", "d", "e", "l">>,
         <<"M", "O", "D", "E", "L">>, <<"s", "e", "e", "d">>,
         <<"S", "e", "e", "d">>, <<"s", "n", "a", "p", "s", "h", "o", "t">>,
         <<"a", "n", "a", "l", "y", "s", "i", "s">>}}

\* C23: update, delete and migrate called with a resource type that is not
\* model, seed, snapshot or analysis in any case of the letters abort with
\* an error before anything is read, written or run; the resource type None
\* and the supported ones are let through.
C23_UnsupportedTypeAbortsBeforeIO ==
    IF kwargs.resource_type \in SupportedSpellings \cup {None}
        THEN pc # "AssertionError"
        ELSE pc \in {"idle", "AssertionError"} /\ calls = <<>>

\* the resource type 'source' has aborted update
C23_Witness ==
    /\ command = "update"
    /\ kwargs.resource_type = Str(<<"s", "o", "u", "r", "c", "e">>)
    /\ pc = "AssertionError"
    /\ calls = <<>>

----------------------------------------------------------------------------
(* fill *)

\* the documented targets, and their columns when fill began and now
FillTargets ==
    {i \in DOMAIN selection :
        initial_files[property_path(selection[i].location)].exists}

ColumnsBefore(i) ==
    ColumnsOf(initial_files[property_path(selection[i].location)].data,
              selection[i])

ColumnsNow(i) ==
    ColumnsOf(files[property_path(selection[i].location)].data, selection[i])

\* the distinct descriptions that the documents of the source selection
\* gave to the columns of a name when fill began
Candidates(name) ==
    {d \in FillDescriptions \ {""} :
        \E k \in DOMAIN source_selection :
            LET r == source_selection[k]
                content == initial_files[property_path(r.location)]
            IN  /\ content.exists
                /\ \E j \in DOMAIN ColumnsOf(content.data, r) :
                      /\ ColumnsOf(content.data, r)[j].name = name
                      /\ ColumnsOf(content.data, r)[j].description = d}

Asked(i, name) ==
    \E k \in DOMAIN fill_log :
        /\ fill_log[k].resource = selection[i].name
        /\ fill_log[k].column = name
        /\ fill_log[k].event = "prompt"

NotDescribed(i, name) ==
    \E k \in DOMAIN tally.not_described :
        tally.not_described[k] = <<selection[i].name, name>>

\* C24: when fill has ended, a target column that lacked a description has
\* the one description collected for its name, without a prompt, or, when
\* none was collected, is still undocumented and counted as not described,
\* without a prompt; a column that had a description has it unchanged.
C24_FillAppliesTheOnlyDescription ==
    pc = "done"
        => \A i \in FillTargets : \A j \in DOMAIN ColumnsBefore(i) :
              LET before == ColumnsBefore(i)[j]
                  now == ColumnsNow(i)[j]
              IN  /\ before.description # "" => now = before
                  /\ (before.description = ""
                        /\ Cardinality(Candidates(before.name)) = 1)
                        => /\ now.description \in Candidates(before.name)
                           /\ ~Asked(i, before.name)
                  /\ (before.description = ""
                        /\ Candidates(before.name) = {})
                        => /\ now = before
                           /\ ~Asked(i, before.name)
                           /\ NotDescribed(i, before.name)

\* items had a described, b not; one description of b was collected and is
\* now the description of b, a is as it was
C24_Witness ==
    /\ pc = "done"
    /\ selection = <<Items>>
    /\ 1 \in FillTargets
    /\ ColumnsBefore(1)[1].description = "y"
    /\ ColumnsBefore(1)[2].description = ""
    /\ Candidates("a") = {"x"}
    /\ Candidates("b") = {"x"}
    /\ ColumnsNow(1)[1].description = "y"
    /\ ColumnsNow(1)[2].description = "x"

Answered(i, name, event, description) ==
    \E k \in DOMAIN fill_log :
        fill_log[k] = [resource |-> selection[i].name, column |-> name,
                       event |-> event, description |-> description]

\* C25: a target column that lacked a description and for whose name more
\* than one description was collected gets a description only by the
\* user's choice of one of them, stays undocumented on a skip, and is asked
\* about again after any other input: fill never picks by itself.
C25_ConflictResolvedOnlyByUser ==
    /\ choice \in {"3", "0", "x", ""} => pc = "prompt"
    /\ pc = "prompt"
          => LET column == ColumnsOf(target_dict,
                              selection[cursor.resource])[cursor.column]
             IN  /\ column.description = ""
                 /\ Cardinality(Candidates(column.name)) > 1
    /\ pc = "done"
          => \A i \in FillTargets : \A j \in DOMAIN ColumnsBefore(i) :
                LET before == ColumnsBefore(i)[j]
                    now == ColumnsNow(i)[j]
                IN  (before.description = ""
                        /\ Cardinality(Candidates(before.name)) > 1)
                        => /\ Asked(i, before.name)
                           /\ \/ /\ now.description
                                        \in Candidates(before.name)
                                 /\ Answered(i, before.name, "chosen",
                                             now.description)
                              \/ /\ now = before
                                 /\ Answered(i, before.name, "skipped", "")
                                 /\ NotDescribed(i, before.name)

\* orders and customers describe a differently; the user chose the second
\* description for the undocumented a of items
C25_Witness ==
    /\ pc = "done"
    /\ selection = <<Items>>
    /\ 1 \in FillTargets
    /\ ColumnsBefore(1)[1].description = ""
    /\ Candidates("a") = {"x", "y"}
    /\ ColumnsNow(1)[1].description = descriptions["a"][2].description
    /\ Answered(1, "a", "chosen", ColumnsNow(1)[1].description)

----------------------------------------------------------------------------
(* add_macro *)

TextsOf(content) == IF content.exists THEN content.texts ELSE <<>>

\* C26: add_macro writes the macro only on confirmation: after the answer n
\* no macro file was created or changed; after the answer y exactly the
\* text of the macro was appended to <first macro path>/<macro name>.sql
\* and nothing else was written; after an answer other than y, n and a the
\* prompt is repeated and nothing was written.
C26_MacroWrittenOnlyOnConfirmation ==
    /\ pc = "exited" => macro_files = initial_macro_files
    /\ add_confirmation \in {"x"}
          => pc = "add_macro" /\ macro_files = initial_macro_files
    /\ add_confirmation \in {"y", "Y"}
          => \A location \in DOMAIN macro_files :
                IF location = [in_macro_paths |-> TRUE, suffix |-> "sql",
                               file |-> "_log_columns_list"]
                THEN /\ macro_files[location].exists
                     /\ macro_files[location].texts =
                            TextsOf(initial_macro_files[location])
                                \o <<MACROS._log_columns_list>>
                ELSE macro_files[location] = initial_macro_files[location]

\* the file of the macro held another macro; after y it holds both
C26_Witness ==
    /\ add_confirmation = "y"
    /\ initial_macro_files[MacroLocation(_MACRO_NAME)].exists
    /\ Len(macro_files[MacroLocation(_MACRO_NAME)].texts) = 2
    /\ macro_files[MacroLocation(_MACRO_NAME)].texts[2]
          = MACROS._log_columns_list

----------------------------------------------------------------------------
(* migrate: the removal of the marked records *)

\* the positions of a section that were marked
MarkedIn(plural) ==
    {indices_to_remove[j].index :
        j \in {l \in DOMAIN indices_to_remove :
                  indices_to_remove[l].resource_type_plural = plural}}

\* the records of s at the positions outside marked, in their order
RECURSIVE Unmarked(_, _, _)
Unmarked(s, marked, i) ==
    IF i > Len(s) THEN <<>>
    ELSE (IF i \in marked THEN <<>> ELSE <<s[i]>>)
         \o Unmarked(s, marked, i + 1)

\* C27: after the removal every section holds its unmarked records, in
\* their original order, and no marked one, for every set of marks and
\* every order of marking; a section is gone exactly when all of its
\* records were marked.
C27_ExactlyTheMarkedRecordsRemoved ==
    pc = "removed"
        => LET before == parse_yaml(files[SchemaPath]).sections
               after == existing_property_file_dict.sections
           IN  /\ DOMAIN after \subseteq DOMAIN before
               /\ \A plural \in DOMAIN before :
                     /\ plural \in DOMAIN after
                           <=> Unmarked(before[plural], MarkedIn(plural), 1)
                                  # <<>>
                     /\ plural \in DOMAIN after
                           => after[plural] =
                                Unmarked(before[plural], MarkedIn(plural), 1)

\* the first and the third model were marked, the first one first, and the
\* second is what is left of the section; both seeds were marked
C27_Witness ==
    /\ pc = "removed"
    /\ Len(indices_to_remove) = 4
    /\ indices_to_remove[1] = [resource_type_plural |-> "models", index |-> 1]
    /\ indices_to_remove[2] = [resource_type_plural |-> "models", index |-> 3]
    /\ MarkedIn("seeds") = {1, 2}
    /\ DOMAIN existing_property_file_dict.sections = {"models"}
    /\ existing_property_file_dict.sections.models
          = <<ResourceProperties("customers")>>

----------------------------------------------------------------------------
(* update: a build that raises writes nothing *)

----------------------------------------------------------------------------
(* migrate: the record of a resource among records of the same name *)

====
